---- MODULE Spec2Model ----
(***************************************************************************)
(* A model of the fleet lifecycle engine of plastic_workflows              *)
(* (provisioning/aws/engine.py, provisioning/aws/ec2_instance.py,          *)
(* utils.py).                                                              *)
(*                                                                         *)
(* Spec        one call of Engine.create() on a fresh engine, step by step *)
(* SpecEngine  the public operations of one engine: prepare, embed, stop,  *)
(*             start, reboot, terminate, against a provider that moves the *)
(*             instance through its states                                 *)
(***************************************************************************)
EXTENDS Integers, Sequences, FiniteSets, TLC

\* ------------------------------------------------------------------ bounds
MaxCount == 3       \* largest MaxCount (requested instances) of a launch plan
MaxSeed == 1        \* largest cluster_ordinal seed passed to create()
MaxPolls == 12      \* describe_spot_instance_requests calls followed per request
MaxProbes == 2      \* failed connection attempts followed per readiness probe
MaxCalls == 3       \* calls followed on one engine

\* ------------------------------------------------------- program constants
SpotTries == 10     \* while count_tries < 10
None == 0           \* Python's None where an instance id is expected
NoName == "None"    \* Python's None where a name is expected
NoOrdinal == -1     \* Python's None where a cluster ordinal is expected

ClusterNames == {"ClusterXX-a", "ClusterXX-b"}
ErrNone == "none"

VARIABLES
    \* ---- Engine.create(): arguments, locals, position
    pc,                 \* position in create()
    args,               \* [count, spot, terminate_on_error, seed, user_data]
    instances,          \* the provider's answer: instance ids (on demand) or spot request ids
    idx,                \* index of the loop the call is in
    pending_ids,        \* the local set pending_ids
    pending_ids_lock,   \* "free" or "held"
    engines,            \* the local list engines
    cluster_ordinal,    \* next value of the count() iterator
    raised,             \* the exception in flight inside the try block
    err,                \* the exception that left create()
    returned,           \* create() returned its list
    inst_id,            \* what wait_spot_requests_fullfilled returned
    count_tries,        \* wait_spot_requests_fullfilled: count_tries
    polls,              \* describe calls made for the current spot request
    probe_i,            \* waitForOpenPort: i
    \* ---- the engine object
    engine,             \* [instance, cluster_ordinal, cluster_name, key_in_use, image_id]
    \* ---- provider side and history
    launched,           \* instance ids the provider has launched for this call
    terminated,         \* instance ids sent a terminate request
    tags,               \* instance id -> tags written by create_tags
    waited,             \* instance ids on which wait_until_running has returned
    probed,             \* instance ids whose port 22 answered a connect
    embedded,           \* history of embed(): <<engine name, instance id>>
    added,              \* instance ids ever added to pending_ids
    timed_out,          \* a spot wait used up its tries
    \* ---- the provider account and the calls made on the engine (SpecEngine)
    inst_state,         \* instance id -> the provider's state name for it
    key_pairs,          \* Service.keyPairs: names of the account's key pairs
    key_lookups,        \* get_key_pair calls made
    placement_groups,   \* placement groups created
    security_groups,    \* security groups created
    plan,               \* what the last prepare() returned
    last,               \* the last call on the engine: [op, err]
    calls,              \* calls made on the engine
    stop_requests,      \* instance.stop() requests sent
    start_requests,     \* instance.start() requests sent
    \* ---- the provision manager and its cluster (SpecCtl, SpecShutdown)
    workers,            \* preemptible -> the list _getWorkersInCluster answers
    has_rm,             \* isinstance( self.resManager, ResourceManager )
    ctl_last,           \* the last set_node_count call: arguments, calls made, result
    ctl_prev,           \* the call before the last, as far as the last repeats it
    ctl_calls,          \* set_node_count calls made
    pm_stop,            \* ProvisionManager.stop
    clusterStats,       \* config.clusterStats is set
    statsPath,          \* self.statsPath has been given a value
    statsThreads,       \* ProvisionManager.statsThreads: the state of each thread
    stats_files,        \* stats files written
    joins,              \* thread.join() calls that have returned
    sd,                 \* the shut_down call in progress: position, argument, error
    shutdowns,          \* shut_down calls that have ended
    live_at_terminate,  \* collector threads running when shut_down shrank the cluster
    gathered,           \* __gatherStats of each thread: its class and its local stats
    pm_stats,           \* ProvisionManager.stats: class name -> the map published
    stats_dump,         \* the object json.dump wrote
    \* ---- the spot bid optimizer (SpecBid)
    zones,              \* describe_availability_zones: the zone names, in order
    spot_hist,          \* the price history, most recent first
    bid_price,          \* the bid passed in
    bid_result,         \* what __optimize_spot_bid returned or raised
    hist_fails,         \* describe_spot_price_history raises ClientError
    tuned,              \* the auto-tune step of prepare(): seeded bid, zone, bid, error
    \* ---- Engine.remaining_billing_interval (SpecBilling)
    launch_time,        \* instance.launch_time, in seconds
    utcnow,             \* datetime.utcnow() at the call, in seconds
    billing,            \* what the call returned, in seconds of the hour
    \* ---- ResourceManager.check_resource_request (SpecResources)
    rm,                 \* the manager: [maxCores, maxMemory, maxDisk]
    request,            \* the request: [memory, cores, disk]
    checked,            \* the outcome of the call and the manager after it
    \* ---- the job monitors (SpecMonitor)
    operations,         \* monitor id -> the state of its job at the service
    monitors,           \* monitor id -> the position of its thread
    completed,          \* monitor id -> the snapshots complete() was called with
    mon_polls,          \* monitor id -> poll() calls made by its thread
    \* ---- WorkFlow.executor and its threads (SpecWorkflow)
    wf,                 \* the executor call: position, jobs left, join index, result
    wf_threads,         \* WorkFlow.threads: the state of each registered thread
    \* ---- fabric_task (SpecFabric)
    lock,               \* fabric_task.lock: the owning thread (0: free) and its depth
    user_stack,         \* fabric_task.user_stack
    fab,                \* thread -> its call of a remote-channel task
    \* ---- the SSH operations of an engine (SpecSsh)
    ssh                 \* the current or last call of an SSH operation

createVars == <<pc, args, instances, idx, pending_ids, pending_ids_lock, engines,
                cluster_ordinal, raised, err, returned, inst_id, count_tries, polls,
                probe_i, launched, terminated, waited, probed, embedded, added,
                timed_out>>

lifeVars == <<inst_state, key_pairs, key_lookups, placement_groups, security_groups,
              plan, last, calls, stop_requests, start_requests>>

ctlVars == <<workers, has_rm, ctl_last, ctl_prev, ctl_calls>>

gatherVars == <<gathered, pm_stats, stats_dump>>

statsVars == <<pm_stop, clusterStats, statsPath, statsThreads, stats_files, joins, sd,
               shutdowns, live_at_terminate, gatherVars>>

bidVars == <<zones, spot_hist, bid_price, bid_result, hist_fails, tuned>>

billVars == <<launch_time, utcnow, billing>>

resVars == <<rm, request, checked>>

monVars == <<operations, monitors, completed, mon_polls>>

wfVars == <<wf, wf_threads>>
fabVars == <<lock, user_stack, fab, ssh>>

\* The components beside the engine, the manager and the optimizer.
sideVars == <<billVars, resVars, monVars, wfVars, fabVars>>

\* What a step of create() leaves alone, and what a call on the engine leaves alone.
outsideCreate == <<lifeVars, ctlVars, statsVars, bidVars, sideVars>>
outsideEngine == <<createVars, ctlVars, statsVars, bidVars, sideVars>>

vars == <<createVars, lifeVars, engine, tags, ctlVars, statsVars, bidVars, sideVars>>

\* ------------------------------------------------------------ the engine

\* Engine.__init__: nothing bound, no cluster name.
NewEngine ==
    [instance |-> None, cluster_ordinal |-> NoOrdinal, cluster_name |-> NoName,
     key_in_use |-> NoName, image_id |-> NoName]

\* Engine.instance_id
instance_id(e) == e.instance

\* An embed that names the cluster at every call.
embed_renaming(e, instance, ordinal, fresh_name) ==
    [e EXCEPT !.instance = instance,
              !.cluster_ordinal = ordinal,
              !.cluster_name = fresh_name]

\* Engine.embed: bind the instance, take the ordinal, name the cluster once.
embed(e, instance, ordinal, fresh_name) ==
    [e EXCEPT !.instance = instance,
              !.cluster_ordinal = ordinal,
              !.cluster_name = IF @ = NoName THEN fresh_name ELSE @]

\* Engine.__tag_created_instance: the tags create_tags writes for the bound instance.
tag_created_instance(e) ==
    [Cl_Ordinal |-> e.cluster_ordinal, Cl_Name |-> e.cluster_name]

\* ------------------------------------------------- Engine.create(): helpers

\* store_instance, first statement: pending_ids.add( instance.id )
store_pending(pending, id) == pending \cup {id}

\* A rollback that stops after its first terminate().
terminate_first_only(pending) ==
    IF pending = {} THEN {} ELSE {CHOOSE p \in pending : TRUE}

\* The except branch with terminate_on_error: the ids that are sent terminate().
terminate_pending(pending) == pending

\* The except branch without terminate_on_error: pending_ids.remove( self.instance_id )
\* raises KeyError when the id is not in the set.
remove_raises(pending, e) == instance_id(e) \notin pending
remove_own(pending, e) == pending \ {instance_id(e)}

\* What describe_spot_instance_requests can answer for one request id: nothing, or
\* one request with its State and Status.Code.
SpotRecords ==
    {[State |-> s, Code |-> "other"] : s \in {"open", "failed", "cancelled", "closed"}}
    \cup {[State |-> "active", Code |-> c] : c \in {"fulfilled", "other"}}
SpotResponses == {<<>>} \cup {<<r>> : r \in SpotRecords}

\* wait_spot_requests_fullfilled, the body of "for r in resp" for one record.
spot_record_step(r) ==
    IF r.State = "failed" THEN "raise"
    ELSE IF r.State = "open" THEN "count"
    ELSE IF r.State = "active" /\ r.Code = "fulfilled" THEN "return"
    ELSE "next"

\* One pass of the while loop over a response of at most one record.
spot_poll_step(resp) == IF resp = <<>> THEN "next" ELSE spot_record_step(resp[1])

\* wait_spot_requests_fullfilled: the while condition.
spot_keep_polling(tries) == tries < SpotTries

\* A probe that takes any answer of connect_ex for an open port.
port_any_answer(ret) == TRUE

\* waitForOpenPort: connect_ex returned 0.
port_is_open(ret) == ret = 0

\* What connect_ex can answer.
ConnectResults == {0, 111, -1}     \* 0, a refusal (errno), -1 for socket.error

\* An exception object: its type, and where create() was when it was raised.
Exc(type, at, k) == [type |-> type, at |-> at, k |-> k]
NoExc == Exc(ErrNone, "none", 0)

\* ------------------------------------------------------ Engine.create(): Init

CreateArgs ==
    [count : 1..MaxCount, spot : BOOLEAN, terminate_on_error : BOOLEAN,
     seed : 0..MaxSeed, user_data : BOOLEAN]

InitCreate ==
    /\ pc = "try"
    /\ args \in CreateArgs
    /\ instances = <<>>
    /\ idx = 1
    /\ pending_ids = {}
    /\ pending_ids_lock = "free"
    /\ engines = <<>>
    /\ cluster_ordinal = args.seed
    /\ raised = NoExc
    /\ err = ErrNone
    /\ returned = FALSE
    /\ inst_id = None
    /\ count_tries = 0
    /\ polls = 0
    /\ probe_i = 0
    /\ launched = {}
    /\ terminated = {}
    /\ waited = {}
    /\ probed = {}
    /\ embedded = <<>>
    /\ added = {}
    /\ timed_out = FALSE

\* The account as create() finds it; no call of SpecEngine is made under Spec.
\* The record of a set_node_count call, before any call.
NoCall ==
    [numNodes |-> 0, preemptible |-> FALSE, force |-> FALSE, cur |-> 0,
     add_calls |-> 0, requested |-> 0, added |-> 0, load_queries |-> 0,
     terminate_calls |-> 0, selected |-> <<>>, ret |-> 0]

\* Two calls in a row: whether the second repeats set_node_count( N, p ) of the
\* first, and then whether the first returned N and whether it asked for nodes.
NoRepeat == [same |-> FALSE, reached |-> FALSE, grew |-> FALSE]
repeats(n, first, second) ==
    IF /\ n >= 1
       /\ second.numNodes = first.numNodes
       /\ second.preemptible = first.preemptible
       /\ ~first.force
       /\ ~second.force
    THEN [same |-> TRUE, reached |-> first.ret = first.numNodes,
          grew |-> first.add_calls = 1]
    ELSE NoRepeat

\* No provision manager, no collector and no bid optimizer run.
IdleCtl ==
    /\ workers = [p \in BOOLEAN |-> <<>>]
    /\ has_rm = FALSE
    /\ ctl_last = NoCall
    /\ ctl_prev = NoRepeat
    /\ ctl_calls = 0

\* The names __gatherStats publishes under.
ClassNames == {"Preemptible", "Non-preemptible"}

\* No map under a key of self.stats.
Unpublished == [by |-> 0, samples |-> 0]

NoStats == [c \in ClassNames |-> Unpublished]

IdleStats ==
    /\ gathered = <<>>
    /\ pm_stats = NoStats
    /\ stats_dump = NoStats
    /\ pm_stop = FALSE
    /\ clusterStats = FALSE
    /\ statsPath = FALSE
    /\ statsThreads = <<>>
    /\ stats_files = 0
    /\ joins = 0
    /\ sd = [pc |-> "idle", preemptible |-> FALSE, err |-> ErrNone, i |-> 1]
    /\ shutdowns = 0
    /\ live_at_terminate = 0

\* The auto-tune step of prepare() has not run.
NoTuned == [seeded |-> 0, zone |-> NoName, bid |-> 0, err |-> ErrNone]

\* check_resource_request has not been called.
NoCheck ==
    [err |-> ErrNone, resource |-> NoName, requested |-> 0, available |-> 0,
     before |-> [maxCores |-> 0, maxMemory |-> 0, maxDisk |-> 0]]

IdleBid ==
    /\ zones = <<>>
    /\ spot_hist = <<>>
    /\ bid_price = 0
    /\ bid_result = [zone |-> NoName, bid |-> 0, err |-> ErrNone]
    /\ hist_fails = FALSE
    /\ tuned = NoTuned

IdleBilling ==
    /\ launch_time = 0
    /\ utcnow = 0
    /\ billing = NoOrdinal

IdleResources ==
    /\ rm = [maxCores |-> 0, maxMemory |-> 0, maxDisk |-> 0]
    /\ request = [memory |-> 0, cores |-> 0, disk |-> 0]
    /\ checked = NoCheck

IdleMonitor ==
    /\ operations = <<>>
    /\ monitors = <<>>
    /\ completed = <<>>
    /\ mon_polls = <<>>

IdleWorkflow ==
    /\ wf = [pc |-> "idle", jobs_left |-> 0, i |-> 1, result |-> NoName]
    /\ wf_threads = <<>>

IdleFabric ==
    /\ lock = [owner |-> 0, depth |-> 0]
    /\ user_stack = <<>>
    /\ fab = <<>>
    /\ ssh = <<>>

IdleSide == IdleBilling /\ IdleResources /\ IdleMonitor /\ IdleWorkflow /\ IdleFabric

IdleLife ==
    /\ inst_state = <<>>
    /\ key_pairs = {}
    /\ key_lookups = 0
    /\ placement_groups = 0
    /\ security_groups = 0
    /\ plan = NoName
    /\ last = [op |-> "none", err |-> ErrNone]
    /\ calls = 0
    /\ stop_requests = 0
    /\ start_requests = 0

Init ==
    /\ InitCreate
    /\ IdleLife
    /\ IdleCtl
    /\ IdleStats
    /\ IdleBid
    /\ IdleSide
    /\ engine = NewEngine
    /\ tags = <<>>

Range(n) == [i \in 1..n |-> i]

\* --------------------------------------------------- Engine.create(): steps

\* An exception raised inside the try block: ClientError goes to the except
\* branch, anything else leaves create().
Raise(type, at) ==
    IF type = "ClientError"
    THEN /\ pc' = "except"
         /\ raised' = Exc(type, at, idx)
         /\ err' = err
    ELSE /\ pc' = "done"
         /\ raised' = Exc(type, at, idx)
         /\ err' = type

\* usr_data=user_text with user_data unset: the local user_text was never assigned.
SubmitNoUserData ==
    /\ pc = "try"
    /\ ~args.user_data
    /\ Raise("UnboundLocalError", "submit")
    /\ UNCHANGED <<args, instances, idx, pending_ids, pending_ids_lock, engines,
                   cluster_ordinal, returned, inst_id, count_tries, polls, probe_i,
                   launched, terminated, waited, probed, embedded, added, timed_out,
                   engine, tags>>
    /\ UNCHANGED outsideCreate

\* create_ec2_spot_instances: one spot request per requested instance, or ClientError.
SubmitSpot ==
    /\ pc = "try"
    /\ args.user_data
    /\ args.spot
    /\ \/ /\ instances' = Range(args.count)
          /\ pc' = "spot_wait"
          /\ UNCHANGED <<raised, err>>
       \/ /\ Raise("ClientError", "submit")
          /\ UNCHANGED instances
    /\ UNCHANGED <<args, idx, pending_ids, pending_ids_lock, engines,
                   cluster_ordinal, returned, inst_id, count_tries, polls, probe_i,
                   launched, terminated, waited, probed, embedded, added, timed_out,
                   engine, tags>>
    /\ UNCHANGED outsideCreate

\* create_ec2_instances, the create_instances call: MinCount=1, MaxCount=count, so
\* the provider launches between 1 and count instances, or answers ClientError.
SubmitOnDemand ==
    /\ pc = "try"
    /\ args.user_data
    /\ ~args.spot
    /\ \/ \E m \in 1..args.count :
            /\ instances' = Range(m)
            /\ launched' = 1..m
            /\ pc' = "od_wait"
            /\ UNCHANGED <<raised, err>>
       \/ /\ Raise("ClientError", "submit")
          /\ UNCHANGED <<instances, launched>>
    /\ UNCHANGED <<args, idx, pending_ids, pending_ids_lock, engines,
                   cluster_ordinal, returned, inst_id, count_tries, polls, probe_i,
                   terminated, waited, probed, embedded, added, timed_out,
                   engine, tags>>
    /\ UNCHANGED outsideCreate

\* create_ec2_instances, "for inst in instances": wait_until_running, then load.
OnDemandWait ==
    /\ pc = "od_wait"
    /\ \/ /\ waited' = waited \cup {instances[idx]}
          /\ IF idx < Len(instances)
             THEN idx' = idx + 1 /\ pc' = "od_wait"
             ELSE idx' = 1 /\ pc' = "store"
          /\ UNCHANGED <<raised, err>>
       \/ /\ Raise("WaiterError", "od_wait")          \* wait_until_running gave up
          /\ UNCHANGED <<waited, idx>>
       \/ /\ waited' = waited \cup {instances[idx]}
          /\ Raise("ClientError", "od_wait")          \* load() was refused
          /\ UNCHANGED idx
    /\ UNCHANGED <<args, instances, pending_ids, pending_ids_lock, engines,
                   cluster_ordinal, returned, inst_id, count_tries, polls, probe_i,
                   launched, terminated, probed, embedded, added, timed_out,
                   engine, tags>>
    /\ UNCHANGED outsideCreate

\* wait_spot_requests_fullfilled: one pass of "while count_tries < 10" for the
\* request instances[idx]: a describe call and the loop over its answer.
SpotPoll ==
    /\ pc = "spot_wait"
    /\ spot_keep_polling(count_tries)
    /\ polls < MaxPolls
    /\ polls' = polls + 1
    /\ \/ /\ Raise("ClientError", "spot_wait")          \* the describe call was refused
          /\ UNCHANGED <<count_tries, inst_id, launched>>
       \/ \E resp \in SpotResponses :
            LET step == spot_poll_step(resp) IN
            CASE step = "raise" ->
                    /\ Raise("UserError", "spot_wait")
                    /\ UNCHANGED <<count_tries, inst_id, launched>>
              [] step = "count" ->
                    /\ count_tries' = count_tries + 1
                    /\ UNCHANGED <<pc, raised, err, inst_id, launched>>
              [] step = "return" ->
                    /\ inst_id' = instances[idx]
                    /\ launched' = launched \cup {instances[idx]}
                    /\ pc' = "store"
                    /\ UNCHANGED <<raised, err, count_tries>>
              [] OTHER ->
                    UNCHANGED <<pc, raised, err, count_tries, inst_id, launched>>
    /\ UNCHANGED <<args, instances, idx, pending_ids, pending_ids_lock, engines,
                   cluster_ordinal, returned, probe_i, terminated, waited, probed,
                   embedded, added, timed_out, engine, tags>>
    /\ UNCHANGED outsideCreate

\* wait_spot_requests_fullfilled: the while condition fails, the function ends
\* without a return statement, so the caller gets None.
SpotGiveUp ==
    /\ pc = "spot_wait"
    /\ ~spot_keep_polling(count_tries)
    /\ inst_id' = None
    /\ timed_out' = TRUE
    /\ pc' = "store"
    /\ UNCHANGED <<args, instances, idx, pending_ids, pending_ids_lock, engines,
                   cluster_ordinal, raised, err, returned, count_tries, polls, probe_i,
                   launched, terminated, waited, probed, embedded, added,
                   engine, tags>>
    /\ UNCHANGED outsideCreate

\* The spot requests create() has cancelled: neither its try block nor its
\* except branch, nor the functions of ec2_instance.py they call, sends a cancel.
cancelled_requests == {}

\* The instance about to be stored: the next of the on-demand batch, or the one
\* the spot wait returned.
CurrentInstance == IF args.spot THEN inst_id ELSE instances[idx]

\* inst = self.env.ec2.Instance(inst_id) with inst_id None: the resource refuses
\* to be built without its identifier (ValueError).
SpotBindNone ==
    /\ pc = "store"
    /\ args.spot
    /\ inst_id = None
    /\ Raise("ValueError", "store")
    /\ UNCHANGED <<args, instances, idx, pending_ids, pending_ids_lock, engines,
                   cluster_ordinal, returned, inst_id, count_tries, polls, probe_i,
                   launched, terminated, waited, probed, embedded, added, timed_out,
                   engine, tags>>
    /\ UNCHANGED outsideCreate

\* After store_instance: the next instance of the batch, the next spot request,
\* or the end of the try block.
AfterStore ==
    IF idx < Len(instances)
    THEN /\ idx' = idx + 1
         /\ pc' = IF args.spot THEN "spot_wait" ELSE "store"
    ELSE /\ idx' = 1
         /\ pc' = "ready"

\* store_instance( inst ): add to pending_ids, embed into self (which tags the
\* instance), append to engines.  create_tags may answer ClientError.
StoreInstance ==
    /\ pc = "store"
    /\ CurrentInstance # None
    /\ pending_ids' = store_pending(pending_ids, CurrentInstance)
    /\ added' = added \cup (pending_ids' \ pending_ids)
    /\ \E name \in ClusterNames :
         engine' = embed(engine, CurrentInstance, cluster_ordinal, name)
    /\ cluster_ordinal' = cluster_ordinal + 1
    /\ embedded' = Append(embedded, <<"self", CurrentInstance>>)
    /\ \/ /\ tags' = (CurrentInstance :> tag_created_instance(engine')) @@ tags
          /\ engines' = Append(engines, CurrentInstance)
          /\ AfterStore
          /\ count_tries' = 0
          /\ polls' = 0
          /\ UNCHANGED <<raised, err>>
       \/ /\ Raise("ClientError", "store")
          /\ UNCHANGED <<tags, engines, idx, count_tries, polls>>
    /\ UNCHANGED <<args, instances, pending_ids_lock, returned, inst_id, probe_i,
                   launched, terminated, waited, probed, timed_out>>
    /\ UNCHANGED outsideCreate

\* except ClientError: log, then enter "with pending_ids_lock".
ExceptEnter ==
    /\ pc = "except"
    /\ pending_ids_lock = "free"
    /\ pending_ids_lock' = "held"
    /\ pc' = "handler"
    /\ UNCHANGED <<args, instances, idx, pending_ids, engines,
                   cluster_ordinal, raised, err, returned, inst_id, count_tries, polls,
                   probe_i, launched, terminated, waited, probed, embedded, added,
                   timed_out, engine, tags>>
    /\ UNCHANGED outsideCreate

\* terminate_on_error: terminate every pending id, leave the lock, re-raise.
HandlerTerminate ==
    /\ pc = "handler"
    /\ args.terminate_on_error
    /\ terminated' = terminated \cup terminate_pending(pending_ids)
    /\ pending_ids_lock' = "free"
    /\ err' = raised.type
    /\ pc' = "done"
    /\ UNCHANGED <<args, instances, idx, pending_ids, engines,
                   cluster_ordinal, raised, returned, inst_id, count_tries, polls,
                   probe_i, launched, waited, probed, embedded, added,
                   timed_out, engine, tags>>
    /\ UNCHANGED outsideCreate

\* not terminate_on_error: pending_ids.remove( self.instance_id ), leave the lock,
\* re-raise; a KeyError of remove() replaces the exception being handled.
HandlerRemove ==
    /\ pc = "handler"
    /\ ~args.terminate_on_error
    /\ IF remove_raises(pending_ids, engine)
       THEN /\ err' = "KeyError"
            /\ UNCHANGED pending_ids
       ELSE /\ err' = raised.type
            /\ pending_ids' = remove_own(pending_ids, engine)
    /\ pending_ids_lock' = "free"
    /\ pc' = "done"
    /\ UNCHANGED <<args, instances, idx, engines,
                   cluster_ordinal, raised, returned, inst_id, count_tries, polls,
                   probe_i, launched, terminated, waited, probed, embedded, added,
                   timed_out, engine, tags>>
    /\ UNCHANGED outsideCreate

\* "for inst in engines": inst.load(), inst.wait_until_running().  Outside the
\* try block, so any exception leaves create().
ReadyWait ==
    /\ pc = "ready"
    /\ idx <= Len(engines)
    /\ \/ /\ waited' = waited \cup {engines[idx]}
          /\ pc' = "probe"
          /\ UNCHANGED <<raised, err>>
       \/ \E e \in {"ClientError", "WaiterError"} :
            /\ pc' = "done"
            /\ raised' = Exc(e, "ready", idx)
            /\ err' = e
            /\ UNCHANGED waited
    /\ UNCHANGED <<args, instances, idx, pending_ids, pending_ids_lock, engines,
                   cluster_ordinal, returned, inst_id, count_tries, polls, probe_i,
                   launched, terminated, probed, embedded, added, timed_out,
                   engine, tags>>
    /\ UNCHANGED outsideCreate

\* waitForOpenPort(inst.public_ip_address): one pass of "while True".
ProbePort ==
    /\ pc = "probe"
    /\ \E ret \in ConnectResults :
         IF port_is_open(ret)
         THEN /\ probed' = IF ret = 0 THEN probed \cup {engines[idx]} ELSE probed
              /\ probe_i' = 0
              /\ idx' = idx + 1
              /\ pc' = "ready"
         ELSE /\ probe_i < MaxProbes
              /\ probe_i' = probe_i + 1
              /\ UNCHANGED <<probed, idx, pc>>
    /\ UNCHANGED <<args, instances, pending_ids, pending_ids_lock, engines,
                   cluster_ordinal, raised, err, returned, inst_id, count_tries, polls,
                   launched, terminated, waited, embedded, added, timed_out,
                   engine, tags>>
    /\ UNCHANGED outsideCreate

\* return engines
Return ==
    /\ pc = "ready"
    /\ idx > Len(engines)
    /\ returned' = TRUE
    /\ pc' = "done"
    /\ UNCHANGED <<args, instances, idx, pending_ids, pending_ids_lock, engines,
                   cluster_ordinal, raised, err, inst_id, count_tries, polls,
                   probe_i, launched, terminated, waited, probed, embedded, added,
                   timed_out, engine, tags>>
    /\ UNCHANGED outsideCreate

create ==
    \/ SubmitNoUserData
    \/ SubmitSpot
    \/ SubmitOnDemand
    \/ OnDemandWait
    \/ SpotPoll
    \/ SpotGiveUp
    \/ SpotBindNone
    \/ StoreInstance
    \/ ExceptEnter
    \/ HandlerTerminate
    \/ HandlerRemove
    \/ ReadyWait
    \/ ProbePort
    \/ Return

Next == create

Spec == Init /\ [][Next]_vars

\* ------------------------------------------------- the engine's operations

\* Python values that are compared across types.
PyStr(v) == [ty |-> "str", val |-> v]
PyDict(v) == [ty |-> "dict", val |-> v]

\* Python's != : values of different types are unequal.
py_ne(a, b) == a.ty # b.ty \/ a.val # b.val

\* The provider's instance states, with their codes.
StateNames == {"pending", "running", "shutting-down", "terminated", "stopping", "stopped"}
StateCode(name) ==
    CASE name = "pending" -> 0
      [] name = "running" -> 16
      [] name = "shutting-down" -> 32
      [] name = "terminated" -> 48
      [] name = "stopping" -> 64
      [] name = "stopped" -> 80

\* Engine.state: the instance resource's state attribute, a mapping of the
\* state's code and name.
state(name) == PyDict([Code |-> StateCode(name), Name |-> name])

\* Engine.__assert_state( expected_state ): actual_state != expected_state,
\* where expected_state is the string the caller passes.
assert_state_raises(name, expected_state) == py_ne(state(name), PyStr(expected_state))

\* The errors the engine raises for a wrong state and for a bound engine.
StateError == "UserError"
AlreadyBound == "AssertionError"

\* A prepare() that never looks at the binding.
never_bound(e) == FALSE

\* prepare(), first statement: self.instance_id is not None
already_bound(e) == instance_id(e) # None

\* The instances, ordinals and counts the calls on the engine are tried with.
EngineInstances == {1}
Ordinals == {0, 1}
PlanCounts == {1, 2}

Zones == {"eu-west-1a", "eu-west-1b"}
SessionZone == "eu-west-1a"
KeyNames == {"wed-key1"}
defaultType == "c3.large"

\* Service.get_key_pair: an existing pair is looked up, a missing one is created.
key_pair_name(keys, keyName) ==
    IF keyName # NoName
    THEN keyName
    ELSE IF keys # {} THEN CHOOSE k \in keys : TRUE ELSE "generated"
get_key_pair(keys, keyName) ==
    IF keyName # NoName
    THEN keys \cup {keyName}
    ELSE IF keys # {} THEN keys ELSE {"generated"}

PrepareArgs ==
    [keyName : KeyNames \cup {NoName}, instance_type : {NoName, "c3.xlarge"},
     image_id : {NoName, "ami-custom"}, num_instances : PlanCounts,
     spot_bid : {NoName, "bid"}, spot_auto_tune : BOOLEAN]

\* No create() runs under SpecEngine.
IdleCreate ==
    /\ pc = "idle"
    /\ args = [count |-> 1, spot |-> FALSE, terminate_on_error |-> TRUE,
               seed |-> 0, user_data |-> FALSE]
    /\ instances = <<>>
    /\ idx = 1
    /\ pending_ids = {}
    /\ pending_ids_lock = "free"
    /\ engines = <<>>
    /\ cluster_ordinal = 0
    /\ raised = NoExc
    /\ err = ErrNone
    /\ returned = FALSE
    /\ inst_id = None
    /\ count_tries = 0
    /\ polls = 0
    /\ probe_i = 0
    /\ launched = {}
    /\ terminated = {}
    /\ waited = {}
    /\ probed = {}
    /\ embedded = <<>>
    /\ added = {}
    /\ timed_out = FALSE

InitEngine ==
    /\ IdleCreate
    /\ IdleCtl
    /\ IdleStats
    /\ IdleBid
    /\ IdleSide
    /\ inst_state = [i \in EngineInstances |-> "pending"]
    /\ key_pairs \in {{}, {"wed-key1"}}
    /\ key_lookups = 0
    /\ placement_groups = 0
    /\ security_groups = 0
    /\ plan = NoName
    /\ last = [op |-> "none", err |-> ErrNone]
    /\ calls = 0
    /\ stop_requests = 0
    /\ start_requests = 0
    /\ engine = NewEngine
    /\ tags = <<>>

\* A call on the engine is recorded with the exception it ended with.
Called(op, e) ==
    /\ calls < MaxCalls
    /\ calls' = calls + 1
    /\ last' = [op |-> op, err |-> e]

\* __fix_spot raised inside prepare(): the ClientError of a failed history fetch, or
\* the ValueError or TypeError an empty history or zone list ends in.
FixSpotError == "FixSpotError"

\* prepare: the zone the subnets are filtered by, zone = self.env.availability_zone,
\* read before the auto-tune step.
subnet_zone(session_zone, placement_zone) == session_zone

\* prepare: the zone in the name of the placement group it creates, 'plgroup_' + zone.
group_zone(session_zone, placement_zone) == session_zone

\* Engine.prepare; with spot_auto_tune the zone and the bid are those of __fix_spot,
\* which SpecBid computes, or the call ends with the error __fix_spot raised.
prepare ==
    /\ \E a \in PrepareArgs :
         IF already_bound(engine)
         THEN /\ Called("prepare", AlreadyBound)
              /\ UNCHANGED <<engine, key_pairs, key_lookups, placement_groups,
                             security_groups, plan>>
         ELSE /\ key_lookups' = key_lookups + 1
              /\ key_pairs' = get_key_pair(key_pairs, a.keyName)
              /\ engine' = [engine EXCEPT
                               !.key_in_use = key_pair_name(key_pairs, a.keyName),
                               !.image_id = IF a.image_id = NoName
                                            THEN "base_image" ELSE a.image_id]
              /\ placement_groups' = placement_groups + 1
              /\ security_groups' = security_groups + 1
              /\ \/ /\ Called("prepare", ErrNone)
                    /\ \E z \in Zones, bid \in {"bid", "tuned"} :
                         /\ a.spot_auto_tune \/ (z = SessionZone /\ bid = "bid")
                         /\ plan' = [ImageId |-> engine'.image_id,
                                     MinCount |-> 1,
                                     MaxCount |-> a.num_instances,
                                     InstanceType |-> IF a.instance_type = NoName
                                                      THEN defaultType
                                                      ELSE a.instance_type,
                                     KeyName |-> engine'.key_in_use,
                                     Zone |-> z,
                                     SubnetZone |-> subnet_zone(SessionZone, z),
                                     GroupZone |-> group_zone(SessionZone, z),
                                     BidPrice |-> IF a.spot_auto_tune
                                                  THEN bid ELSE a.spot_bid]
                 \/ /\ a.spot_auto_tune
                    /\ Called("prepare", FixSpotError)
                    /\ plan' = plan
    /\ UNCHANGED <<inst_state, stop_requests, start_requests, tags, outsideEngine>>

\* Engine.embed( instance, cluster_ordinal ), called on the engine directly.
Embed ==
    /\ \E i \in EngineInstances, ordinal \in Ordinals, name \in ClusterNames :
         /\ engine' = embed(engine, i, ordinal, name)
         /\ tags' = (i :> tag_created_instance(engine')) @@ tags
    /\ Called("embed", ErrNone)
    /\ UNCHANGED <<inst_state, key_pairs, key_lookups, placement_groups,
                   security_groups, plan, stop_requests, start_requests, outsideEngine>>

\* Engine.stop; on an unbound engine self.instance is None and the state cannot
\* be read.
stop ==
    /\ IF instance_id(engine) = None
       THEN /\ Called("stop", "AttributeError")
            /\ UNCHANGED <<inst_state, stop_requests>>
       ELSE IF assert_state_raises(inst_state[instance_id(engine)], "running")
       THEN /\ Called("stop", StateError)
            /\ UNCHANGED <<inst_state, stop_requests>>
       ELSE /\ Called("stop", ErrNone)
            /\ stop_requests' = stop_requests + 1
            /\ inst_state' = [inst_state EXCEPT ![instance_id(engine)] = "stopped"]
    /\ UNCHANGED <<engine, key_pairs, key_lookups, placement_groups, security_groups,
                   plan, start_requests, tags, outsideEngine>>

\* Engine.start
start ==
    /\ IF instance_id(engine) = None
       THEN /\ Called("start", "AttributeError")
            /\ UNCHANGED <<inst_state, start_requests>>
       ELSE IF assert_state_raises(inst_state[instance_id(engine)], "stopped")
       THEN /\ Called("start", StateError)
            /\ UNCHANGED <<inst_state, start_requests>>
       ELSE /\ Called("start", ErrNone)
            /\ start_requests' = start_requests + 1
            /\ inst_state' = [inst_state EXCEPT ![instance_id(engine)] = "running"]
    /\ UNCHANGED <<engine, key_pairs, key_lookups, placement_groups, security_groups,
                   plan, stop_requests, tags, outsideEngine>>

\* Engine.terminate: unconditional, returns once the instance is terminated.
terminate ==
    /\ IF instance_id(engine) = None
       THEN /\ Called("terminate", "AttributeError")
            /\ UNCHANGED inst_state
       ELSE /\ Called("terminate", ErrNone)
            /\ inst_state' = [inst_state EXCEPT ![instance_id(engine)] = "terminated"]
    /\ UNCHANGED <<engine, key_pairs, key_lookups, placement_groups, security_groups,
                   plan, stop_requests, start_requests, tags, outsideEngine>>

\* The provider and the account's other users move an instance along the
\* instance lifecycle.
Lifecycle ==
    {<<"pending", "running">>, <<"running", "stopping">>, <<"stopping", "stopped">>,
     <<"stopped", "pending">>, <<"running", "shutting-down">>,
     <<"stopped", "shutting-down">>, <<"shutting-down", "terminated">>}

ProviderStep ==
    /\ \E i \in EngineInstances, t \in Lifecycle :
         /\ inst_state[i] = t[1]
         /\ inst_state' = [inst_state EXCEPT ![i] = t[2]]
    /\ UNCHANGED <<engine, key_pairs, key_lookups, placement_groups, security_groups,
                   plan, last, calls, stop_requests, start_requests, tags, outsideEngine>>

NextEngine ==
    \/ prepare
    \/ Embed
    \/ stop
    \/ start
    \/ terminate
    \/ ProviderStep

SpecEngine == InitEngine /\ [][NextEngine]_vars

\* ------------------------------------------- the provision manager: shrink

MaxFleet == 2       \* largest cluster the manager starts with
MaxDesired == 2     \* largest numNodes passed to set_node_count
MaxCtlCalls == 2    \* set_node_count calls followed on one manager

\* Fractions of the billing hour, in hundredths.
BillingSlack == 15              \* <= 0.15
FreshBilling == 100             \* 1.0 - 0.0, an instance launched this instant
Billing == {15, 16}             \* the remaining intervals the cluster starts with
NoInfo == -1                    \* nodes.get( ip ) answered None
Loads == {0, 1}                 \* NodeInfo.workers

\* min( a, b )
Min(a, b) == IF a < b THEN a ELSE b

\* Python's order on tuples of numbers.
RECURSIVE tuple_lt(_, _)
tuple_lt(a, b) ==
    IF a = <<>> \/ b = <<>>
    THEN a = <<>> /\ b # <<>>
    ELSE IF Head(a) # Head(b)
         THEN Head(a) < Head(b)
         ELSE tuple_lt(Tail(a), Tail(b))

\* list.sort / sorted: a stable sort by key, as an insertion of each item
\* behind the items whose key is not greater.
RECURSIVE insert_sorted(_, _)
insert_sorted(done, x) ==
    IF done = <<>>
    THEN <<x>>
    ELSE IF tuple_lt(x.key, Head(done).key)
         THEN <<x>> \o done
         ELSE <<Head(done)>> \o insert_sorted(Tail(done), x)

RECURSIVE sort_keyed(_)
sort_keyed(items) ==
    IF items = <<>>
    THEN <<>>
    ELSE insert_sorted(sort_keyed(SubSeq(items, 1, Len(items) - 1)), items[Len(items)])

\* sorted( list, key ), with keys[i] the key of list[i].
sorted(list, keys) ==
    LET items == [i \in 1..Len(list) |-> [key |-> keys[i], val |-> list[i]]]
        s == sort_keyed(items)
    IN  [i \in 1..Len(s) |-> s[i].val]

\* Engine.remaining_billing_interval, as _remainingBillingInterval( instance )
\* reads it for an instance of the cluster.
remainingBillingInterval(instance) == instance.rbi

\* A sort key that leaves the workers out.
load_blind_key(instance) == <<remainingBillingInterval(instance)>>

\* The sort key of __removeNodes with load information:
\* ( nodeInfo.workers if nodeInfo else 1, remaining billing interval ).
load_key(instance) ==
    <<IF instance.info # NoInfo THEN instance.info ELSE 1,
      remainingBillingInterval(instance)>>

\* The sort key of __removeNodes without load information.
billing_key(instance) == <<remainingBillingInterval(instance)>>

\* A selection that takes every instance the join found a NodeInfo for.
eligible_if_known(instance, force) == force \/ instance.info # NoInfo

\* __removeNodes, the loop over the joined nodes: forced, or a NodeInfo with no
\* running worker.
eligible(instance, force) ==
    force \/ (instance.info # NoInfo /\ instance.info < 1)

\* __removeNodes: remaining billing interval <= 0.15
within_slack(instance) == remainingBillingInterval(instance) <= BillingSlack

\* list[:n]
truncate(list, n) == SubSeq(list, 1, Min(n, Len(list)))

\* __removeNodes with load information: the instances to terminate.
nodes_to_terminate(insts, numNodes, force) ==
    LET keep(i) == eligible(i, force)
        kept == SelectSeq(insts, keep)
        ordered == sorted(kept, [i \in 1..Len(kept) |-> load_key(kept[i])])
        paid == IF force THEN ordered ELSE SelectSeq(ordered, within_slack)
    IN  truncate(paid, numNodes)

\* __removeNodes without load information: the instances to terminate.
instances_by_billing(insts, numNodes) ==
    sorted(insts, [i \in 1..Len(insts) |-> billing_key(insts[i])])

\* __removeNodes: the instances handed to _logAndTerminate.
removeNodes(insts, numNodes, force, load_info) ==
    IF load_info
    THEN nodes_to_terminate(insts, numNodes, force)
    ELSE instances_by_billing(insts, numNodes)

\* ------------------------------------ the provision manager: set_node_count

\* A manager that asks for numNodes more nodes.
grow_request_total(numNodes, numCurrentNodes) == numNodes

\* set_node_count: the numNodes it passes to _addNodes.
grow_request(numNodes, numCurrentNodes) == numNodes - numCurrentNodes

\* A manager that grows on delta >= 0.
grows_or_same(delta) == delta >= 0

\* set_node_count: delta > 0
grows(delta) == delta > 0

\* A manager that shrinks on delta <= 0.
shrinks_or_same(delta) == delta <= 0

\* set_node_count: delta < 0
shrinks(delta) == delta < 0

\* _addNodes: what it can answer for a request of n nodes, the number it added.
added_nodes(n) == 0..n

\* An instance the provider has just launched: not yet known to the resource
\* manager, its billing hour just begun.
fresh_instance(id) == [id |-> id, rbi |-> FreshBilling, info |-> NoInfo]

\* The k smallest ids no instance of the cluster carries, in order.
RECURSIVE free_ids(_, _)
free_ids(used, k) ==
    IF k = 0
    THEN <<>>
    ELSE LET id == CHOOSE i \in 1..(Cardinality(used) + 1) : i \notin used
         IN  <<id>> \o free_ids(used \cup {id}, k - 1)

\* The ids of the instances of the cluster, of both classes.
cluster_ids(w) == UNION {{w[p][i].id : i \in 1..Len(w[p])} : p \in BOOLEAN}

\* _getWorkersInCluster after _addNodes added the instances with these ids.
with_added(list, ids) == list \o [i \in 1..Len(ids) |-> fresh_instance(ids[i])]

\* _getWorkersInCluster after _logAndTerminate( victims ).
without(list, victims) ==
    LET gone == {victims[i].id : i \in 1..Len(victims)}
        stays(w) == w.id \notin gone
    IN  SelectSeq(list, stays)

\* ProvisionManager.set_node_count( numNodes, preemptible, force )
set_node_count(numNodes, preemptible, force) ==
    LET workerInstances == workers[preemptible]
        numCurrentNodes == Len(workerInstances)
        delta == numNodes - numCurrentNodes
        call == [NoCall EXCEPT !.numNodes = numNodes, !.preemptible = preemptible,
                               !.force = force, !.cur = numCurrentNodes]
    IN  IF grows(delta)
        THEN \E k \in added_nodes(grow_request(numNodes, numCurrentNodes)) :
               /\ workers' = [workers EXCEPT
                                ![preemptible] =
                                    with_added(@, free_ids(cluster_ids(workers), k))]
               /\ ctl_last' = [call EXCEPT
                                 !.add_calls = 1,
                                 !.requested = grow_request(numNodes, numCurrentNodes),
                                 !.added = k,
                                 !.ret = numCurrentNodes + k]
        ELSE IF shrinks(delta)
        THEN LET victims == removeNodes(workerInstances, -delta, force, has_rm)
             IN  /\ workers' = [workers EXCEPT ![preemptible] = without(@, victims)]
                 /\ ctl_last' = [call EXCEPT
                                   !.load_queries = IF has_rm THEN 1 ELSE 0,
                                   !.terminate_calls = IF victims # <<>> THEN 1 ELSE 0,
                                   !.selected = victims,
                                   !.ret = numCurrentNodes - Len(victims)]
        ELSE /\ UNCHANGED workers
             /\ ctl_last' = [call EXCEPT !.ret = numNodes]

\* The clusters a manager is started on: non-preemptible instances, each with
\* its remaining billing interval and, under a resource manager, the NodeInfo of
\* its private IP; preemptible instances come with the first request for them.
InitCluster ==
    \E n \in 0..MaxFleet :
      \E f \in [1..n -> [rbi : Billing,
                         info : IF has_rm THEN Loads \cup {NoInfo} ELSE {NoInfo}]] :
        workers = [p \in BOOLEAN |->
                     IF p
                     THEN <<>>
                     ELSE [i \in 1..n |-> [id |-> i, rbi |-> f[i].rbi, info |-> f[i].info]]]

\* No create() and no call on an engine run under the manager's specifications.
IdleEngine ==
    /\ IdleCreate
    /\ IdleLife
    /\ engine = NewEngine
    /\ tags = <<>>

InitCtl ==
    /\ has_rm \in BOOLEAN
    /\ InitCluster
    /\ ctl_last = NoCall
    /\ ctl_prev = NoRepeat
    /\ ctl_calls = 0
    /\ IdleStats
    /\ IdleBid
    /\ IdleSide
    /\ IdleEngine

\* A caller of the manager calls set_node_count.
SetNodeCount ==
    /\ ctl_calls < MaxCtlCalls
    /\ \E numNodes \in 0..MaxDesired, preemptible \in BOOLEAN, force \in BOOLEAN :
         set_node_count(numNodes, preemptible, force)
    /\ ctl_prev' = repeats(ctl_calls, ctl_last, ctl_last')
    /\ ctl_calls' = ctl_calls + 1
    /\ UNCHANGED <<has_rm, statsVars, bidVars, sideVars, createVars, lifeVars, engine, tags>>

NextCtl == SetNodeCount

SpecCtl == InitCtl /\ [][NextCtl]_vars

\* ------------------------------- the provision manager: statistics, shut_down

MaxThreads == 2     \* start_stats calls followed on one manager
MaxShutdowns == 2   \* shut_down calls followed on one manager
MaxSamples == 1     \* passes of one collector's loop that append a sample

\* shut_down: if not self.stop
shuts_down_stats(stopped) == ~stopped

\* __shutDownStats: if self.config.clusterStats
stats_configured(cluster_stats) == cluster_stats

\* shut_down: if totalNodes != 0: raise RuntimeError
shut_down_error(totalNodes) == IF totalNodes # 0 THEN "RuntimeError" ELSE ErrNone

\* The collector threads that have not ended.
running_threads(threads) == {t \in 1..Len(threads) : threads[t] = "running"}

\* A manager on a cluster, no collector started; config.clusterStats is set or
\* not, and statsPath, which ProvisionManager never assigns, has been given a
\* value by the manager's owner or not.
InitShutdown ==
    /\ has_rm \in BOOLEAN
    /\ InitCluster
    /\ ctl_last = NoCall
    /\ ctl_prev = NoRepeat
    /\ ctl_calls = 0
    /\ pm_stop = FALSE
    /\ clusterStats \in BOOLEAN
    /\ statsPath \in BOOLEAN
    /\ statsThreads = <<>>
    /\ stats_files = 0
    /\ joins = 0
    /\ sd = [pc |-> "idle", preemptible |-> FALSE, err |-> ErrNone, i |-> 1]
    /\ shutdowns = 0
    /\ live_at_terminate = 0
    /\ gathered = <<>>
    /\ pm_stats = NoStats
    /\ stats_dump = NoStats
    /\ IdleBid
    /\ IdleSide
    /\ IdleEngine

\* What the statistics and shut_down steps leave alone.
outsideStats == <<bidVars, sideVars, createVars, lifeVars, engine, tags, has_rm, clusterStats,
                  statsPath>>

\* __gatherStats, finally: threadName = 'Preemptible' if preemptible else
\* 'Non-preemptible'
thread_name(preemptible) == IF preemptible THEN "Preemptible" ELSE "Non-preemptible"

\* __gatherStats, finally: self.stats[threadName] = stats
publish(published, t, local) ==
    [published EXCEPT ![thread_name(local.preemptible)] =
                          [by |-> t, samples |-> local.samples]]

\* ProvisionManager.start_stats: one more collector thread, started before the
\* manager is shut down.
start_stats ==
    /\ sd.pc = "idle"
    /\ shutdowns = 0
    /\ Len(statsThreads) < MaxThreads
    /\ statsThreads' = Append(statsThreads, "running")
    /\ \E preemptible \in BOOLEAN :
         gathered' = Append(gathered, [preemptible |-> preemptible, samples |-> 0])
    /\ UNCHANGED <<pm_stop, stats_files, joins, sd, shutdowns, live_at_terminate,
                   workers, ctl_last, ctl_prev, ctl_calls, pm_stats, stats_dump,
                   outsideStats>>

\* __gatherStats, one pass of the loop: getNodes answers and a sample of the
\* node is appended to the thread's local stats.
GatherPoll ==
    /\ \E t \in running_threads(statsThreads) :
         /\ ~pm_stop
         /\ gathered[t].samples < MaxSamples
         /\ gathered' = [gathered EXCEPT ![t].samples = @ + 1]
    /\ UNCHANGED <<pm_stop, statsThreads, stats_files, joins, sd, shutdowns,
                   live_at_terminate, workers, ctl_last, ctl_prev, ctl_calls,
                   pm_stats, stats_dump, outsideStats>>

\* __gatherStats, while not self.stop: the thread sees the flag and ends.
GatherStop ==
    /\ \E t \in running_threads(statsThreads) :
         /\ pm_stop
         /\ statsThreads' = [statsThreads EXCEPT ![t] = "stopped"]
         /\ pm_stats' = publish(pm_stats, t, gathered[t])
    /\ UNCHANGED <<pm_stop, stats_files, joins, sd, shutdowns, live_at_terminate,
                   workers, ctl_last, ctl_prev, ctl_calls, gathered, stats_dump,
                   outsideStats>>

\* __gatherStats, self.resManager.getNodes( preemptible ) raises: the thread
\* ends through its finally clause.
GatherFail ==
    /\ \E t \in running_threads(statsThreads) :
         /\ ~pm_stop
         /\ statsThreads' = [statsThreads EXCEPT ![t] = "failed"]
         /\ pm_stats' = publish(pm_stats, t, gathered[t])
    /\ UNCHANGED <<pm_stop, stats_files, joins, sd, shutdowns, live_at_terminate,
                   workers, ctl_last, ctl_prev, ctl_calls, gathered, stats_dump,
                   outsideStats>>

\* shut_down( preemptible ), entered: if not self.stop
ShutDownCall ==
    /\ sd.pc = "idle"
    /\ shutdowns < MaxShutdowns
    /\ \E preemptible \in BOOLEAN :
         sd' = [pc |-> IF shuts_down_stats(pm_stop) THEN "stats" ELSE "shrink",
                preemptible |-> preemptible, err |-> ErrNone, i |-> 1]
    /\ live_at_terminate' = 0
    /\ UNCHANGED <<pm_stop, statsThreads, stats_files, joins, shutdowns,
                   workers, ctl_last, ctl_prev, ctl_calls, gatherVars, outsideStats>>

\* __shutDownStats: if self.config.clusterStats: self.stop = True
ShutDownStats ==
    /\ sd.pc = "stats"
    /\ IF stats_configured(clusterStats)
       THEN /\ pm_stop' = TRUE
            /\ sd' = [sd EXCEPT !.pc = "join", !.i = 1]
       ELSE /\ pm_stop' = pm_stop
            /\ sd' = [sd EXCEPT !.pc = "shrink"]
    /\ UNCHANGED <<statsThreads, stats_files, joins, shutdowns, live_at_terminate,
                   workers, ctl_last, ctl_prev, ctl_calls, gatherVars, outsideStats>>

\* __shutDownStats: for thread in self.statsThreads: thread.join(), which returns
\* once the thread has ended.
ShutDownJoin ==
    /\ sd.pc = "join"
    /\ IF sd.i <= Len(statsThreads)
       THEN /\ statsThreads[sd.i] # "running"
            /\ joins' = joins + 1
            /\ sd' = [sd EXCEPT !.i = @ + 1]
       ELSE /\ joins' = joins
            /\ sd' = [sd EXCEPT !.pc = "file"]
    /\ UNCHANGED <<pm_stop, statsThreads, stats_files, shutdowns, live_at_terminate,
                   workers, ctl_last, ctl_prev, ctl_calls, gatherVars, outsideStats>>

\* __shutDownStats: getFileName() reads self.statsPath, then the file is
\* written; without the attribute the call ends with AttributeError.
ShutDownFile ==
    /\ sd.pc = "file"
    /\ IF statsPath
       THEN /\ stats_files' = stats_files + 1
            /\ stats_dump' = pm_stats
            /\ sd' = [sd EXCEPT !.pc = "shrink"]
            /\ shutdowns' = shutdowns
       ELSE /\ stats_files' = stats_files
            /\ stats_dump' = stats_dump
            /\ sd' = [sd EXCEPT !.pc = "idle", !.err = "AttributeError"]
            /\ shutdowns' = shutdowns + 1
    /\ UNCHANGED <<pm_stop, statsThreads, joins, live_at_terminate,
                   workers, ctl_last, ctl_prev, ctl_calls, gathered, pm_stats,
                   outsideStats>>

\* shut_down: totalNodes = self.set_node_count( 0, preemptible, force=True ),
\* and the RuntimeError when it is not 0.
ShutDownShrink ==
    /\ sd.pc = "shrink"
    /\ set_node_count(0, sd.preemptible, TRUE)
    /\ ctl_prev' = repeats(ctl_calls, ctl_last, ctl_last')
    /\ ctl_calls' = ctl_calls + 1
    /\ live_at_terminate' = IF ctl_last'.terminate_calls > 0
                            THEN Cardinality(running_threads(statsThreads))
                            ELSE 0
    /\ sd' = [sd EXCEPT !.pc = "idle", !.err = shut_down_error(ctl_last'.ret)]
    /\ shutdowns' = shutdowns + 1
    /\ UNCHANGED <<pm_stop, statsThreads, stats_files, joins, gatherVars, outsideStats>>

NextShutdown ==
    \/ start_stats
    \/ GatherPoll
    \/ GatherStop
    \/ GatherFail
    \/ ShutDownCall
    \/ ShutDownStats
    \/ ShutDownJoin
    \/ ShutDownFile
    \/ ShutDownShrink

SpecShutdown == InitShutdown /\ [][NextShutdown]_vars

\* ------------------------------------------------- the spot bid optimizer

MaxHist == 3        \* most records of a price history

\* Prices are counted in 0.0001 dollars, the precision round( price, 4 ) keeps.
Prices == {10, 12, 50}
Bids == {11, 30, 74, 120}

\* spot_bid=None, or any bid that "not bid" takes for none
NoBid == 0

\* The zones a price history can name: the region's, listed or not.
HistZones == Zones \cup {"eu-west-1c"}

\* describe_availability_zones: the zones listed, in some order.
ZoneLists ==
    {<<>>} \cup {<<z>> : z \in Zones}
           \cup {<<y, z>> : <<y, z>> \in {p \in Zones \X Zones : p[1] # p[2]}}

\* describe_spot_price_history, most recent first.
Histories ==
    UNION {[1..n -> [AvailabilityZone : HistZones, SpotPrice : Prices]] : n \in 0..MaxHist}

\* The history of the worked example: zone a at 0.10, 0.12 and last 0.11, zone b at
\* 0.50, the record of zone b at any place in time.
ScenarioA ==
    <<[AvailabilityZone |-> "eu-west-1a", SpotPrice |-> 1100],
      [AvailabilityZone |-> "eu-west-1a", SpotPrice |-> 1200],
      [AvailabilityZone |-> "eu-west-1a", SpotPrice |-> 1000]>>

ScenarioB == [AvailabilityZone |-> "eu-west-1b", SpotPrice |-> 5000]

ScenarioHistories ==
    {SubSeq(ScenarioA, 1, k) \o <<ScenarioB>> \o SubSeq(ScenarioA, k + 1, 3) : k \in 0..3}

\* sum( xs )
RECURSIVE sum(_)
sum(xs) == IF xs = <<>> THEN 0 ELSE Head(xs) + sum(Tail(xs))

\* min( xs ), of a list that is not empty
RECURSIVE smallest(_)
smallest(xs) ==
    IF Len(xs) = 1 THEN xs[1] ELSE Min(Head(xs), smallest(Tail(xs)))

\* max( xs ), of a list that is not empty
RECURSIVE largest(_)
largest(xs) ==
    IF Len(xs) = 1
    THEN xs[1]
    ELSE LET m == largest(Tail(xs)) IN IF Head(xs) > m THEN Head(xs) ELSE m

\* round( a / n ) for a >= 0, to the nearest unit, halves upwards
round_div(a, n) == (2 * a + n) \div (2 * n)

\* utils.std_dev( xs ), kept as the fraction num / den of its square: the
\* deviations of two lists compare as these fractions do.
std_dev(xs) ==
    LET n == Len(xs)
        squares == [i \in 1..n |-> xs[i] * xs[i]]
    IN  [num |-> n * sum(squares) - sum(xs) * sum(xs), den |-> n * n]

\* 0.0 where a deviation is expected
NoDeviation == [num |-> 0, den |-> 1]

\* price_deviation of a < price_deviation of b
dev_lt(a, b) == a.num * b.den < b.num * a.den

\* SpotPrice of every record, rounded to four places
prices_of(hist) == [i \in 1..Len(hist) |-> hist[i].SpotPrice]

\* The records of one zone, as the comprehension over spot_hist selects them.
zone_records(hist, zone) ==
    LET of_zone(zh) == zh.AvailabilityZone = zone
    IN  SelectSeq(hist, of_zone)

\* zone_hists after the loop has gone through the first k zones: the list is
\* filled zone after zone and never emptied.
RECURSIVE zone_hists(_, _, _)
zone_hists(hist, zs, k) ==
    IF k = 0
    THEN <<>>
    ELSE zone_hists(hist, zs, k - 1) \o zone_records(hist, zs[k])

\* The loop body for the k-th zone: its BestAvZone and its recent price.
zone_market(hist, zs, k, bid) ==
    LET zh == zone_hists(hist, zs, k)
    IN  IF zh # <<>>
        THEN [name |-> zs[k], price_deviation |-> std_dev(prices_of(zh)),
              recent_price |-> zh[1].SpotPrice]
        ELSE [name |-> zs[k], price_deviation |-> NoDeviation, recent_price |-> bid]

\* markets_under_bid and markets_over_bid: recent_price < bid_price or not.
markets(hist, zs, bid, under) ==
    LET all == [k \in 1..Len(zs) |-> zone_market(hist, zs, k, bid)]
        wanted(m) == (m.recent_price < bid) = under
    IN  SelectSeq(all, wanted)

\* An optimizer that falls back on the session's zone when no market is under
\* the bid.
candidate_markets_or_session(under, over) ==
    IF under # <<>>
    THEN under
    ELSE <<[name |-> SessionZone, price_deviation |-> NoDeviation, recent_price |-> 0]>>

\* markets_under_bid or markets_over_bid
candidate_markets(under, over) == IF under # <<>> THEN under ELSE over

\* min( list, key=attrgetter( 'price_deviation' ) ): the first of the least.
RECURSIVE min_by_deviation(_)
min_by_deviation(ms) ==
    IF Len(ms) = 1
    THEN ms[1]
    ELSE LET rest == min_by_deviation(Tail(ms))
         IN  IF dev_lt(rest.price_deviation, Head(ms).price_deviation)
             THEN rest
             ELSE Head(ms)

\* check_spot_prices: ( min, round( mean, 4 ) ) of the whole history
check_spot_prices(hist) ==
    LET sh == prices_of(hist)
    IN  [sm |-> smallest(sh), avg |-> round_div(sum(sh), Len(sh))]

\* x + ( ( 25/100 ) * x ), with the integer division of the two literals
plus_quarter(x) == x + ((25 \div 100) * x)

\* The correction against the minimum alone.
corrected_bid_floor_only(bid, sm, avg) ==
    IF bid <= sm THEN plus_quarter(sm) ELSE bid

\* The two corrections of the bid, the average first.
corrected_bid(bid, sm, avg) ==
    LET b1 == IF bid > avg * 2 THEN plus_quarter(avg) ELSE bid
    IN  IF b1 <= sm THEN plus_quarter(sm) ELSE b1

\* Engine.__optimize_spot_bid( instance_type, bid_price )
optimize_spot_bid(hist, zs, bid) ==
    LET under == markets(hist, zs, bid, TRUE)
        over == markets(hist, zs, bid, FALSE)
        from == candidate_markets(under, over)
    IN  IF from = <<>>
        THEN [zone |-> NoName, bid |-> 0, err |-> "ValueError"]
        ELSE IF hist = <<>>
        THEN [zone |-> NoName, bid |-> 0, err |-> "TypeError"]
        ELSE LET c == check_spot_prices(hist)
             IN  [zone |-> min_by_deviation(from).name,
                  bid |-> corrected_bid(bid, c.sm, c.avg),
                  err |-> ErrNone]

\* __get_spot_history and __optimize_spot_bid after it: the fetch comes first.
optimize_call(hist, zs, bid, fails) ==
    IF fails
    THEN [zone |-> NoName, bid |-> 0, err |-> "ClientError"]
    ELSE optimize_spot_bid(hist, zs, bid)

\* mx - ( ( 25/100 ) * mx ), with the integer division of the two literals
minus_quarter(mx) == mx - ((25 \div 100) * mx)

\* Engine.__fix_spot( instance_type, bid ): the bid handed to the optimizer and
\* what came back, or the error that left the call.
fix_spot(hist, zs, bid, fails) ==
    IF bid # NoBid
    THEN LET r == optimize_call(hist, zs, bid, fails)
         IN  [seeded |-> bid, zone |-> r.zone, bid |-> r.bid, err |-> r.err]
    ELSE IF fails
    THEN [seeded |-> NoBid, zone |-> NoName, bid |-> 0, err |-> "ClientError"]
    ELSE IF hist = <<>>
    THEN [seeded |-> NoBid, zone |-> NoName, bid |-> 0, err |-> "ValueError"]
    ELSE LET seed == minus_quarter(largest(prices_of(hist)))
             r == optimize_call(hist, zs, seed, fails)
         IN  [seeded |-> seed, zone |-> r.zone, bid |-> r.bid, err |-> r.err]

InitBid ==
    /\ zones \in ZoneLists
    /\ hist_fails \in BOOLEAN
    /\ spot_hist \in (IF hist_fails THEN {<<>>} ELSE Histories \cup ScenarioHistories)
    /\ bid_price \in Bids \cup {NoBid}
    /\ bid_result = [zone |-> NoName, bid |-> 0, err |-> ErrNone]
    /\ tuned = NoTuned
    /\ IdleCtl
    /\ IdleStats
    /\ IdleEngine
    /\ IdleSide

\* A call of __optimize_spot_bid with the history and the zones of the account.
OptimizeSpotBid ==
    /\ bid_price # NoBid
    /\ tuned = NoTuned
    /\ bid_result = [zone |-> NoName, bid |-> 0, err |-> ErrNone]
    /\ bid_result' = optimize_call(spot_hist, zones, bid_price, hist_fails)
    /\ UNCHANGED <<zones, spot_hist, bid_price, hist_fails, tuned, ctlVars, statsVars,
                   createVars, lifeVars, engine, tags, sideVars>>

\* prepare( spot_bid=bid_price, spot_auto_tune=True ), its auto-tune step: the zone
\* and the bid of the plan are those __fix_spot returns; an error leaves prepare().
PrepareAutoTune ==
    /\ tuned = NoTuned
    /\ bid_result = [zone |-> NoName, bid |-> 0, err |-> ErrNone]
    /\ tuned' = fix_spot(spot_hist, zones, bid_price, hist_fails)
    /\ tuned' # NoTuned
    /\ UNCHANGED <<zones, spot_hist, bid_price, hist_fails, bid_result, ctlVars,
                   statsVars, createVars, lifeVars, engine, tags, sideVars>>

NextBid == OptimizeSpotBid \/ PrepareAutoTune

SpecBid == InitBid /\ [][NextBid]_vars

\* ------------------------------------------- the remaining billing interval

\* Seconds of a billing cycle: total_seconds() / 3600.0
Hour == 3600

\* Launch times and reading times, in seconds: around the start of a cycle, around
\* 15% of it, around its end and around the end of the next.
Instants == {0, 1, 539, 540, 541, 3599, 3600, 3601, 7200, 7201}

\* The part of the cycle already used, where the part left is asked for.
used_billing_interval(launch, now) == (now - launch) % Hour

\* Engine.remaining_billing_interval, as seconds of the hour:
\* 1.0 - ( ( delta.total_seconds() / 3600.0 ) % 1.0 ), times 3600
remaining_billing_interval(launch, now) == Hour - ((now - launch) % Hour)

InitBilling ==
    /\ launch_time \in Instants
    /\ utcnow \in Instants
    /\ billing = NoOrdinal
    /\ IdleCtl
    /\ IdleStats
    /\ IdleBid
    /\ IdleEngine
    /\ IdleResources
    /\ IdleMonitor
    /\ IdleWorkflow
    /\ IdleFabric

\* A call of remaining_billing_interval on an engine whose instance was launched
\* at launch_time, made at utcnow.
RemainingBillingInterval ==
    /\ billing = NoOrdinal
    /\ billing' = remaining_billing_interval(launch_time, utcnow)
    /\ UNCHANGED <<launch_time, utcnow, resVars, monVars, wfVars, fabVars, bidVars, ctlVars, statsVars,
                   createVars, lifeVars, engine, tags>>

NextBilling == RemainingBillingInterval

SpecBilling == InitBilling /\ [][NextBilling]_vars

\* ------------------------------------------------- the resource manager

MaxAmount == 2      \* the largest amount of a resource, requested or allowed

NoAmount == -1      \* Python's None where an amount is expected

\* What a caller can pass for memory, cores or disk.
Amounts == {NoAmount} \cup 0..MaxAmount

\* maxCores, maxMemory, maxDisk of a manager
Maxima == 1..MaxAmount

\* A test that also refuses a request equal to the maximum.
reaches(requested, available) == requested >= available

\* cores > self.maxCores, and the like
exceeds(requested, available) == requested > available

\* raise InsufficientSystemResources( resource, requested, available )
InsufficientSystemResources(resource, requested, available, manager) ==
    [err |-> "InsufficientSystemResources", resource |-> resource,
     requested |-> requested, available |-> available, before |-> manager]

\* ResourceManager.check_resource_request( memory, cores, disk )
check_resource_request(manager, memory, cores, disk) ==
    IF memory = NoAmount \/ disk = NoAmount \/ cores = NoAmount
    THEN [NoCheck EXCEPT !.err = "AssertionError", !.before = manager]
    ELSE IF exceeds(cores, manager.maxCores)
    THEN InsufficientSystemResources("cores", cores, manager.maxCores, manager)
    ELSE IF exceeds(memory, manager.maxMemory)
    THEN InsufficientSystemResources("memory", memory, manager.maxMemory, manager)
    ELSE IF exceeds(disk, manager.maxDisk)
    THEN InsufficientSystemResources("disk", disk, manager.maxDisk, manager)
    ELSE [NoCheck EXCEPT !.resource = "accepted", !.before = manager]

InitResources ==
    /\ rm \in [maxCores : Maxima, maxMemory : Maxima, maxDisk : Maxima]
    /\ request \in [memory : Amounts, cores : Amounts, disk : Amounts]
    /\ checked = NoCheck
    /\ IdleCtl
    /\ IdleStats
    /\ IdleBid
    /\ IdleEngine
    /\ IdleBilling
    /\ IdleMonitor
    /\ IdleWorkflow
    /\ IdleFabric

\* A call of check_resource_request with the request at hand; the method assigns
\* nothing to the manager.
CheckResourceRequest ==
    /\ checked = NoCheck
    /\ checked' = check_resource_request(rm, request.memory, request.cores, request.disk)
    /\ UNCHANGED <<rm, request, billVars, monVars, wfVars, fabVars, bidVars, ctlVars, statsVars,
                   createVars, lifeVars, engine, tags>>

NextResources == CheckResourceRequest

SpecResources == InitResources /\ [][NextResources]_vars

\* ------------------------------------------------------- the job monitors

MaxMonitors == 2    \* jobs submitted, one monitor each

MonitorIds == 1..MaxMonitors

\* The states the job service reports for a job.
JobStates == {"Queued", "Running", "Complete", "Error"}

\* LocalWorkflowMonitor.is_done( operation )
is_done(operation) == operation.state \in {"Complete", "Error"}

\* The job service moves a job on.
job_step(job_state) ==
    CASE job_state = "Queued" -> {"Running"}
      [] job_state = "Running" -> {"Complete", "Error"}
      [] OTHER -> {}

\* MonitorThread.__init__ reads operation.id: a snapshot without that attribute,
\* as the dict get_job returns, ends the constructor with AttributeError.
monitor_init(operation) == IF operation.has_id THEN "created" ELSE "AttributeError"

\* MonitorThread.run(), which LocalWorkflowMonitor does not override: it raises
\* at once and the thread ends; poll, is_done and complete are not called.
monitor_run(position) == "raised"

InitMonitor ==
    /\ operations \in [MonitorIds -> [state : {"Queued"}, has_id : BOOLEAN]]
    /\ monitors = [i \in MonitorIds |-> "none"]
    /\ completed = [i \in MonitorIds |-> <<>>]
    /\ mon_polls = [i \in MonitorIds |-> 0]
    /\ IdleCtl
    /\ IdleStats
    /\ IdleBid
    /\ IdleEngine
    /\ IdleBilling
    /\ IdleResources
    /\ IdleWorkflow
    /\ IdleFabric

outsideMonitor == <<billVars, resVars, wfVars, fabVars, bidVars, ctlVars, statsVars, createVars, lifeVars,
                    engine, tags>>

\* The job of monitor i changes state at the service.
JobStep(i) ==
    /\ \E next \in job_step(operations[i].state) :
         operations' = [operations EXCEPT ![i].state = next]
    /\ UNCHANGED <<monitors, completed, mon_polls, outsideMonitor>>

\* LocalWorkflowMonitor( service, operation, outputs, callback )
NewMonitor(i) ==
    /\ monitors[i] = "none"
    /\ monitors' = [monitors EXCEPT ![i] = monitor_init(operations[i])]
    /\ UNCHANGED <<operations, completed, mon_polls, outsideMonitor>>

\* monitor.start()
MonitorStart(i) ==
    /\ monitors[i] = "created"
    /\ monitors' = [monitors EXCEPT ![i] = "started"]
    /\ UNCHANGED <<operations, completed, mon_polls, outsideMonitor>>

\* The thread of monitor i runs run().
MonitorRun(i) ==
    /\ monitors[i] = "started"
    /\ monitors' = [monitors EXCEPT ![i] = monitor_run(monitors[i])]
    /\ UNCHANGED <<operations, completed, mon_polls, outsideMonitor>>

NextMonitor ==
    \E i \in MonitorIds :
        JobStep(i) \/ NewMonitor(i) \/ MonitorStart(i) \/ MonitorRun(i)

SpecMonitor == InitMonitor /\ [][NextMonitor]_vars

\* ------------------------------------------- WorkFlow.executor and wait()

MaxJobs == 4    \* runnables the job generator yields in one executor call

\* all([not t.is_alive() for t in self.threads])
none_alive(thread_list) ==
    \A t \in 1..Len(thread_list) : thread_list[t] # "alive"

\* The statement after the job loop: an executor that reports at once.
report_at_once == "report"

\* The statement after the job loop: self.wait().
after_jobs == "wait"

InitWorkflow ==
    /\ wf \in [pc : {"jobs"}, jobs_left : 0..MaxJobs, i : {1}, result : {NoName}]
    /\ wf_threads = <<>>
    /\ IdleCtl
    /\ IdleStats
    /\ IdleBid
    /\ IdleEngine
    /\ IdleBilling
    /\ IdleResources
    /\ IdleMonitor
    /\ IdleFabric

outsideWorkflow == <<billVars, resVars, monVars, fabVars, bidVars,
                     ctlVars, statsVars, createVars, lifeVars, engine, tags>>

\* runnable.run(**kwargs): the job registers its monitor with add_thread and
\* starts it, or raises before registering and the executor re-raises.
RunJob ==
    /\ wf.pc = "jobs"
    /\ wf.jobs_left > 0
    /\ \/ /\ wf_threads' = Append(wf_threads, "alive")
          /\ wf' = [wf EXCEPT !.jobs_left = @ - 1]
       \/ /\ wf' = [wf EXCEPT !.pc = "raised", !.result = "WorkflowException"]
          /\ UNCHANGED wf_threads
    /\ UNCHANGED outsideWorkflow

\* The job generator is exhausted: the executor goes on after the loop.
JobsDone ==
    /\ wf.pc = "jobs"
    /\ wf.jobs_left = 0
    /\ wf' = [wf EXCEPT !.pc = after_jobs]
    /\ UNCHANGED <<wf_threads, outsideWorkflow>>

\* A monitor thread's run() ends, normally or with an exception.
ThreadEnd(t) ==
    /\ t \in 1..Len(wf_threads)
    /\ wf_threads[t] = "alive"
    /\ wf_threads' = [wf_threads EXCEPT ![t] = "dead"]
    /\ UNCHANGED <<wf, outsideWorkflow>>

\* wait(): the polling loop breaks once no registered thread is alive.
WaitBreak ==
    /\ wf.pc = "wait"
    /\ none_alive(wf_threads)
    /\ wf' = [wf EXCEPT !.pc = "join", !.i = 1]
    /\ UNCHANGED <<wf_threads, outsideWorkflow>>

\* wait(): t.join() returns once thread t has ended; after the last thread
\* wait() returns.
Join ==
    /\ wf.pc = "join"
    /\ IF wf.i > Len(wf_threads)
         THEN wf' = [wf EXCEPT !.pc = "report"]
         ELSE /\ wf_threads[wf.i] # "alive"
              /\ wf' = [wf EXCEPT !.i = @ + 1]
    /\ UNCHANGED <<wf_threads, outsideWorkflow>>

\* The executor returns (final_output[0], final_status[0]) or
\* (None, "permanentFail").
Report ==
    /\ wf.pc = "report"
    /\ \E pair \in {"output", "permanentFail"} :
           wf' = [wf EXCEPT !.pc = "returned", !.result = pair]
    /\ UNCHANGED <<wf_threads, outsideWorkflow>>

MainThread == JobsDone \/ WaitBreak \/ Join \/ Report

NextWorkflow ==
    \/ RunJob
    \/ JobsDone
    \/ \E t \in 1..MaxJobs : ThreadEnd(t)
    \/ WaitBreak
    \/ Join
    \/ Report

\* The main thread keeps running; nothing obliges a monitor thread to end.
SpecWorkflow == InitWorkflow /\ [][NextWorkflow]_vars /\ WF_vars(MainThread)

\* ------------------------------------------------ fabric_task.__call__

MaxTaskThreads == 2     \* threads calling remote-channel tasks
MaxTaskCalls == 2       \* task calls one thread makes

TaskThreads == 1..MaxTaskThreads

\* admin_account() of the engines, and a user given to the decorator.
Users == {"ubuntu", "root"}

NoTask == [pc |-> "idle", user |-> NoName, entry |-> <<>>, pushed |-> FALSE,
           popped |-> NoName, ran |-> FALSE, outcome |-> NoName, calls |-> 0]

\* engine._execute_task( task, user ): neither Engine nor a subclass of it
\* defines the attribute.
execute_task == "AttributeError"

\* A stack that is left as it is.
stack_keep(stack) == stack

\* user_stack.pop( ): the stack without its top.
stack_pop(stack) == SubSeq(stack, 1, Len(stack) - 1)

top(stack) == IF stack = <<>> THEN NoName ELSE stack[Len(stack)]

InitFabric ==
    /\ lock = [owner |-> 0, depth |-> 0]
    /\ user_stack = <<>>
    /\ fab = [t \in TaskThreads |-> NoTask]
    /\ ssh = <<>>
    /\ IdleCtl
    /\ IdleStats
    /\ IdleBid
    /\ IdleEngine
    /\ IdleBilling
    /\ IdleResources
    /\ IdleMonitor
    /\ IdleWorkflow

outsideFabric == <<ssh, billVars, resVars, monVars, wfVars, bidVars,
                   ctlVars, statsVars, createVars, lifeVars, engine, tags>>

\* A thread calls the wrapper of a task; the acting user is the engine's
\* admin account or the decorator's user.
TaskCall(t) ==
    /\ fab[t].pc = "idle"
    /\ fab[t].calls < MaxTaskCalls
    /\ \E user \in Users :
           fab' = [fab EXCEPT ![t] = [NoTask EXCEPT !.pc = "lock", !.user = user,
                                                   !.calls = fab[t].calls]]
    /\ UNCHANGED <<lock, user_stack, outsideFabric>>

\* with self.lock: the reentrant lock is free or owned by this thread.
TaskAcquire(t) ==
    /\ fab[t].pc = "lock"
    /\ lock.owner \in {0, t}
    /\ lock' = [owner |-> t, depth |-> lock.depth + 1]
    /\ fab' = [fab EXCEPT ![t].pc = "section", ![t].entry = user_stack]
    /\ UNCHANGED <<user_stack, outsideFabric>>

\* The branch on the top of the stack: the function is run at once, or the
\* user is pushed.
TaskEnter(t) ==
    /\ fab[t].pc = "section"
    /\ IF user_stack # <<>> /\ top(user_stack) = fab[t].user
         THEN /\ fab' = [fab EXCEPT ![t].pc = "exit", ![t].ran = TRUE,
                                    ![t].outcome = "returned"]
              /\ UNCHANGED user_stack
         ELSE /\ user_stack' = Append(user_stack, fab[t].user)
              /\ fab' = [fab EXCEPT ![t].pc = "execute", ![t].pushed = TRUE]
    /\ UNCHANGED <<lock, outsideFabric>>

\* return engine._execute_task( task, user )
TaskExecute(t) ==
    /\ fab[t].pc = "execute"
    /\ fab' = [fab EXCEPT ![t].pc = "finally", ![t].outcome = execute_task]
    /\ UNCHANGED <<lock, user_stack, outsideFabric>>

\* finally: assert user_stack.pop( ) == user
TaskFinally(t) ==
    /\ fab[t].pc = "finally"
    /\ user_stack' = stack_pop(user_stack)
    /\ fab' = [fab EXCEPT ![t].pc = "exit", ![t].popped = top(user_stack),
                          ![t].outcome = IF top(user_stack) = fab[t].user
                                           THEN @ ELSE "AssertionError"]
    /\ UNCHANGED <<lock, outsideFabric>>

\* The with block is left and the call returns or raises.
TaskExit(t) ==
    /\ fab[t].pc = "exit"
    /\ lock' = [owner |-> IF lock.depth = 1 THEN 0 ELSE t, depth |-> lock.depth - 1]
    /\ fab' = [fab EXCEPT ![t].pc = "idle", ![t].calls = @ + 1]
    /\ UNCHANGED <<user_stack, outsideFabric>>

NextFabric ==
    \E t \in TaskThreads :
        \/ TaskCall(t)
        \/ TaskAcquire(t)
        \/ TaskEnter(t)
        \/ TaskExecute(t)
        \/ TaskFinally(t)
        \/ TaskExit(t)

SpecFabric == InitFabric /\ [][NextFabric]_vars

\* ------------------- run_command_on_instance, get_via_ssh and put_via_ssh

MaxSshCalls == 3    \* SSH operations made one after another

SshOperations == {"run_command_on_instance", "get_via_ssh", "put_via_ssh"}

\* What can fail in an operation: nothing, the connection (paramiko's
\* exceptions or a socket error), the command channel, the transfer.
SshFaults(operation) ==
    IF operation = "run_command_on_instance"
      THEN {"none", "SSHException"}
      ELSE {"none", "SSHException", "BadHostKeyException", "AuthenticationException",
            "socket.error", "IOError"}

\* The faults that client.connect raises.
connect_faults == {"SSHException", "BadHostKeyException", "AuthenticationException",
                   "socket.error"}

\* The except clauses of __ssh_client: each logs the error and re-raises it.
ssh_client_logs(exc) ==
    exc \in {"SSHException", "BadHostKeyException", "AuthenticationException"}

NoSsh == [pc |-> "idle", op |-> NoName, fault |-> "none", logged |-> FALSE,
          outcome |-> NoName, client |-> "none", calls |-> 0]

InitSsh ==
    /\ ssh = NoSsh
    /\ lock = [owner |-> 0, depth |-> 0]
    /\ user_stack = <<>>
    /\ fab = <<>>
    /\ IdleCtl
    /\ IdleStats
    /\ IdleBid
    /\ IdleEngine
    /\ IdleBilling
    /\ IdleResources
    /\ IdleMonitor
    /\ IdleWorkflow

outsideSsh == <<lock, user_stack, fab, billVars, resVars, monVars, wfVars, bidVars,
                ctlVars, statsVars, createVars, lifeVars, engine, tags>>

\* An operation is called on an instance whose channel has the given fault.
SshCall ==
    /\ ssh.pc = "idle"
    /\ ssh.calls < MaxSshCalls
    /\ \E operation \in SshOperations : \E fault \in SshFaults(operation) :
           ssh' = [NoSsh EXCEPT !.pc = IF operation = "run_command_on_instance"
                                         THEN "exec" ELSE "connect",
                                !.op = operation, !.fault = fault,
                                !.client = IF operation = "run_command_on_instance"
                                             THEN "open" ELSE "none",
                                !.calls = ssh.calls + 1]
    /\ UNCHANGED outsideSsh

\* client = self.__ssh_client(key_file), before the try statement of the
\* caller: a failing connect leaves __ssh_client and the caller as an exception.
SshClient ==
    /\ ssh.pc = "connect"
    /\ IF ssh.fault \in connect_faults
         THEN ssh' = [ssh EXCEPT !.pc = "idle", !.logged = ssh_client_logs(ssh.fault),
                                 !.outcome = ssh.fault]
         ELSE ssh' = [ssh EXCEPT !.pc = "transfer", !.client = "open"]
    /\ UNCHANGED outsideSsh

\* try: open_sftp, get or put, close; except Exception: log.error
SshTransfer ==
    /\ ssh.pc = "transfer"
    /\ ssh' = [ssh EXCEPT !.pc = "close", !.logged = ssh.fault # "none"]
    /\ UNCHANGED outsideSsh

\* if client: client.close(); the operation returns None.
SshClose ==
    /\ ssh.pc = "close"
    /\ ssh' = [ssh EXCEPT !.pc = "idle", !.client = "closed", !.outcome = "returned None"]
    /\ UNCHANGED outsideSsh

\* run_command_on_instance: exec_command, with its SSHException caught and
\* logged; the operation returns None.
SshExec ==
    /\ ssh.pc = "exec"
    /\ ssh' = [ssh EXCEPT !.pc = "idle", !.logged = ssh.fault # "none",
                          !.outcome = "returned None"]
    /\ UNCHANGED outsideSsh

NextSsh == SshCall \/ SshClient \/ SshTransfer \/ SshClose \/ SshExec

SpecSsh == InitSsh /\ [][NextSsh]_vars

\* ---------------------------------------------------- create(): properties

\* The instances embed() has bound in this call, in order.
Bound == {embedded[i][2] : i \in 1..Len(embedded)}

\* A ClientError was raised inside the try block and create() has ended.
FailedInTry ==
    /\ pc = "done"
    /\ raised.type = "ClientError"
    /\ raised.at # "ready"

C2_NoTerminateReraise ==
    (FailedInTry /\ ~args.terminate_on_error) =>
        /\ terminated = {}
        /\ pending_ids = added \ {instance_id(engine)}
        /\ err = "ClientError"

\* C3: a wait for one spot request makes at most 10 describe calls, whatever
\* the provider answers.
C3_SpotWaitBounded == polls <= SpotTries

\* C4: a spot wait that used up its tries ends create() with a timeout error,
\* binds and returns nothing for that request, and terminates nothing.
C4_SpotTimeoutError ==
    (pc = "done" /\ timed_out) =>
        /\ err = "TimeoutError"
        /\ ~returned
        /\ instances[raised.k] \notin Bound
        /\ terminated = {}

\* C5: on both paths, once any instance of the call has been waited on as
\* running, every instance the provider launched for the call is already in
\* pending_ids.
C5_PendingBeforeWait == (waited # {}) => (launched \subseteq added)

\* C6: pending_ids only changes while pending_ids_lock is held.
C6_PendingUnderLock ==
    [][(pending_ids' # pending_ids) => (pending_ids_lock = "held")]_vars

\* C7: every instance create() returns has been seen running by
\* wait_until_running and has answered the port probe.
C7_ReturnedAreReady ==
    returned =>
        \A i \in 1..Len(engines) : engines[i] \in waited /\ engines[i] \in probed

\* C7, its case: create() returned three instances.
C7_Witness ==
    /\ returned
    /\ Len(engines) = 3
    /\ args.spot

\* C8: after a create() of more than one instance, the engine is still bound to
\* the first one, no engine was bound twice, and the k-th instance carries
\* ordinal seed + k.
C8_ClonesOwnInstances ==
    (returned /\ Len(engines) > 1) =>
        /\ instance_id(engine) = engines[1]
        /\ \A i, j \in 1..Len(embedded) :
              i # j => embedded[i][1] # embedded[j][1]
        /\ \A k \in 1..Len(engines) :
              tags[engines[k]].Cl_Ordinal = args.seed + (k - 1)

\* ----------------------------------------------- the engine: properties

\* The step is a call of op on the engine.
IsCall(op) == calls' = calls + 1 /\ last'.op = op

\* C9: prepare() on a bound engine fails with the already-bound error and has
\* no effect: no key pair looked up or created, no placement group, no security
\* group, the engine as it was.
C9_PrepareBoundNoEffect ==
    [][(IsCall("prepare") /\ instance_id(engine) # None) =>
          /\ last'.err = AlreadyBound
          /\ UNCHANGED <<engine, key_pairs, key_lookups, placement_groups,
                         security_groups, plan>>]_vars

\* C9, its case: prepare() was called on a bound engine and failed.
C9_Witness ==
    /\ last.op = "prepare"
    /\ last.err = AlreadyBound
    /\ instance_id(engine) # None

\* C10: stop() succeeds exactly on a running instance and start() exactly on a
\* stopped one; otherwise the call fails with the state error and sends no
\* request; on success one request is sent and the target state is reached.
C10_StopStartPreState ==
    [][/\ (IsCall("stop") /\ instance_id(engine) # None) =>
            IF inst_state[instance_id(engine)] = "running"
            THEN /\ last'.err = ErrNone
                 /\ stop_requests' = stop_requests + 1
                 /\ inst_state'[instance_id(engine)] = "stopped"
            ELSE /\ last'.err = StateError
                 /\ UNCHANGED <<stop_requests, inst_state>>
       /\ (IsCall("start") /\ instance_id(engine) # None) =>
            IF inst_state[instance_id(engine)] = "stopped"
            THEN /\ last'.err = ErrNone
                 /\ start_requests' = start_requests + 1
                 /\ inst_state'[instance_id(engine)] = "running"
            ELSE /\ last'.err = StateError
                 /\ UNCHANGED <<start_requests, inst_state>>]_vars

\* ------------------------------------------ the provision manager: properties

\* The last set_node_count call was a shrink.
Shrunk == ctl_calls > 0 /\ ctl_last.numNodes < ctl_last.cur

\* The instance is idle by its NodeInfo: it has one, with no running worker.
KnownIdle(instance) == instance.info # NoInfo /\ instance.info < 1

\* C11, as claimed: in any unforced shrink, every instance handed to
\* termination has a NodeInfo, with no running worker.
C11_ShrinkSparesBusy ==
    (Shrunk /\ ~ctl_last.force) =>
        \A i \in 1..Len(ctl_last.selected) : KnownIdle(ctl_last.selected[i])

\* C11, amended: in an unforced shrink with load information, every instance
\* handed to termination has a NodeInfo, with no running worker.
C11_ShrinkSparesBusyWithLoadInfo ==
    (Shrunk /\ ~ctl_last.force /\ has_rm) =>
        \A i \in 1..Len(ctl_last.selected) : KnownIdle(ctl_last.selected[i])

\* C11, its case: an unforced shrink to zero with load information terminated
\* an idle instance and left one that is busy or unknown.
C11_Witness ==
    /\ Shrunk
    /\ ~ctl_last.force
    /\ has_rm
    /\ ctl_last.numNodes = 0
    /\ Len(ctl_last.selected) >= 1
    /\ \E i \in 1..Len(workers[ctl_last.preemptible]) :
         ~KnownIdle(workers[ctl_last.preemptible][i])

\* C12: in an unforced shrink, with or without load information, no instance
\* handed to termination has more than 0.15 of its billing hour left.
C12_ShrinkKeepsPaidTime ==
    (Shrunk /\ ~ctl_last.force) =>
        \A i \in 1..Len(ctl_last.selected) :
            remainingBillingInterval(ctl_last.selected[i]) <= BillingSlack

\* C13: without load information a shrink by N terminates exactly N instances,
\* in ascending order of remaining billing interval, none of them with more of
\* its hour left than an instance that stays, and the others stay.
C13_ShrinkTakesFirstN ==
    (Shrunk /\ ~has_rm) =>
        LET N == ctl_last.cur - ctl_last.numNodes
            sel == ctl_last.selected
            left == workers[ctl_last.preemptible]
        IN  /\ Len(sel) = N
            /\ Len(left) = ctl_last.numNodes
            /\ \A i, j \in 1..Len(sel) :
                 i < j => remainingBillingInterval(sel[i]) <= remainingBillingInterval(sel[j])
            /\ \A i \in 1..Len(sel), j \in 1..Len(left) :
                 remainingBillingInterval(sel[i]) <= remainingBillingInterval(left[j])

\* C14: a shrink terminates at most |delta| instances and set_node_count
\* returns no less than the desired count.
C14_ShrinkAtMostDelta ==
    Shrunk =>
        /\ Len(ctl_last.selected) <= ctl_last.cur - ctl_last.numNodes
        /\ ctl_last.ret >= ctl_last.numNodes

\* The call asked the provider for nothing.
NoProviderCall(call) == call.add_calls = 0 /\ call.terminate_calls = 0

\* C15, as claimed: set_node_count( N, p ) twice in a row returns N both times
\* and the second call neither adds nor terminates.
C15_RepeatReturnsN ==
    ctl_prev.same =>
        /\ ctl_prev.reached
        /\ ctl_last.ret = ctl_last.numNodes
        /\ NoProviderCall(ctl_last)

\* C15, amended: when the first of the two calls returned N, the second returns
\* N and neither adds nor terminates.
C15_RepeatAfterReachingN ==
    (ctl_prev.same /\ ctl_prev.reached) =>
        /\ ctl_last.ret = ctl_last.numNodes
        /\ NoProviderCall(ctl_last)

\* C15, its case: the first call grew the cluster to N, the second found it
\* there.
C15_Witness ==
    /\ ctl_prev.same
    /\ ctl_prev.reached
    /\ ctl_prev.grew
    /\ ctl_last.numNodes >= 2
    /\ ctl_last.cur = ctl_last.numNodes
    /\ ctl_last.ret = ctl_last.numNodes

\* C16: a call with the desired count equal to the current count adds nothing,
\* terminates nothing, asks for no node load and returns the current count.
C16_SameCountNoOp ==
    (ctl_calls > 0 /\ ctl_last.numNodes = ctl_last.cur) =>
        /\ NoProviderCall(ctl_last)
        /\ ctl_last.load_queries = 0
        /\ ctl_last.selected = <<>>
        /\ ctl_last.ret = ctl_last.cur
        /\ Len(workers[ctl_last.preemptible]) = ctl_last.cur

\* C16, its case: a call for the two instances a manager with load information
\* already has.
C16_Witness ==
    /\ ctl_calls > 0
    /\ has_rm
    /\ ctl_last.cur = 2
    /\ ctl_last.numNodes = 2
    /\ ctl_last.ret = 2

\* C17: a call with the desired count above the current count c asks for
\* exactly desired - c nodes of the class, terminates none and returns c plus
\* the number added, which is the size of the class afterwards.
C17_GrowRequestsDelta ==
    (ctl_calls > 0 /\ ctl_last.numNodes > ctl_last.cur) =>
        /\ ctl_last.add_calls = 1
        /\ ctl_last.requested = ctl_last.numNodes - ctl_last.cur
        /\ ctl_last.terminate_calls = 0
        /\ ctl_last.selected = <<>>
        /\ ctl_last.ret = ctl_last.cur + ctl_last.added
        /\ Len(workers[ctl_last.preemptible]) = ctl_last.ret

\* C17, its case: two preemptible nodes desired with none existing, beside two
\* non-preemptible ones and without load information: two are requested and
\* added.
C17_Witness ==
    /\ ctl_calls > 0
    /\ ~has_rm
    /\ ctl_last.preemptible
    /\ ctl_last.numNodes = 2
    /\ ctl_last.cur = 0
    /\ ctl_last.requested = 2
    /\ ctl_last.added = 2
    /\ ctl_last.ret = 2
    /\ Len(workers[FALSE]) = 2

\* ------------------------------------- statistics, shut_down: properties

\* A shut_down call has ended and none is in progress.
ShutDownEnded == shutdowns > 0 /\ sd.pc = "idle"

\* C18: shut_down( preemptible ) has stopped the collector when it issues a
\* termination, calls set_node_count( 0, preemptible, force=True ), and ends
\* with the RuntimeError exactly when the count returned is not 0.
C18_ShutDownStopsThenShrinks ==
    ShutDownEnded =>
        /\ live_at_terminate = 0
        /\ ctl_calls >= 1
        /\ ctl_last.numNodes = 0
        /\ ctl_last.preemptible = sd.preemptible
        /\ ctl_last.force
        /\ (sd.err = "RuntimeError") <=> (ctl_last.ret # 0)

\* C19: after a shut_down of a manager with a collector, whatever its
\* configuration, the stop flag is set, no collector thread runs, each thread
\* has been joined once and one stats file has been written; a later shut_down
\* adds no join and no file.
C19_CollectorStoppedOnce ==
    (ShutDownEnded /\ statsThreads # <<>>) =>
        /\ pm_stop
        /\ running_threads(statsThreads) = {}
        /\ joins = Len(statsThreads)
        /\ stats_files = 1

\* ------------------------------------------ the bid optimizer: properties

\* The zones the optimizer was given.
ListedZones == {zones[i] : i \in 1..Len(zones)}

\* C20: whatever the price history and the bid, a zone the optimizer returns
\* is one of the listed availability zones.
C20_ZoneIsListed ==
    (bid_result.err = ErrNone /\ bid_result.zone # NoName) =>
        bid_result.zone \in ListedZones

\* C20, its case: one zone listed, a history that names a zone outside the list
\* at a lower price and with less deviation; the listed zone is returned.
C20_Witness ==
    /\ bid_result.err = ErrNone
    /\ Len(zones) = 1
    /\ bid_result.zone = zones[1]
    /\ \E i \in 1..Len(spot_hist) :
         /\ spot_hist[i].AvailabilityZone \notin ListedZones
         /\ spot_hist[i].SpotPrice < bid_price
    /\ \E i \in 1..Len(spot_hist) :
         /\ spot_hist[i].AvailabilityZone \in ListedZones
         /\ spot_hist[i].SpotPrice >= bid_price

\* __optimize_spot_bid was called directly and returned.
Optimized == bid_result.err = ErrNone /\ bid_result.zone # NoName

\* The samples of one zone alone, and what they make of the zone: the deviation
\* of its own prices, its own most recent price.
own_prices(zone) == prices_of(zone_records(spot_hist, zone))

own_deviation(zone) ==
    IF own_prices(zone) = <<>> THEN NoDeviation ELSE std_dev(own_prices(zone))

own_recent(zone, bid) ==
    IF own_prices(zone) = <<>> THEN bid ELSE own_prices(zone)[1]

\* The listed zones whose own recent price is under the bid, or not under it.
OwnMarkets(bid, under) == {z \in ListedZones : (own_recent(z, bid) < bid) = under}

\* zone has the least own deviation of the zones in set.
least_deviation(zone, set) ==
    /\ zone \in set
    /\ \A y \in set : ~dev_lt(own_deviation(y), own_deviation(zone))

\* C21: the zone returned has the least price deviation of the under-bid zones,
\* or of the over-bid zones when no zone is under the bid.
C21_ZoneLeastDeviation ==
    Optimized =>
        IF OwnMarkets(bid_price, TRUE) # {}
        THEN least_deviation(bid_result.zone, OwnMarkets(bid_price, TRUE))
        ELSE least_deviation(bid_result.zone, OwnMarkets(bid_price, FALSE))

\* C22: whatever its place in the list, a zone is classified by its own samples:
\* deviation of its own prices, its own most recent price (the bid and deviation
\* 0 when it has none).
C22_ZoneOwnSamples ==
    Optimized =>
        \A k \in 1..Len(zones) :
            LET m == zone_market(spot_hist, zones, k, bid_price)
            IN  /\ m.recent_price = own_recent(zones[k], bid_price)
                /\ ~dev_lt(m.price_deviation, own_deviation(zones[k]))
                /\ ~dev_lt(own_deviation(zones[k]), m.price_deviation)

\* prepare() went through its auto-tune step without an error.
Tuned == tuned # NoTuned /\ tuned.err = ErrNone

\* C23: without an initial bid, the bid handed to the optimizer is 75% of the
\* highest price of the history.
C23_SeedThreeQuarters ==
    (Tuned /\ bid_price = NoBid) =>
        100 * tuned.seeded = 75 * largest(prices_of(spot_hist))

\* Four times the bid the two corrections should return, with avg and sm as the
\* optimizer takes them from the history.
corrected_bid_x4(bid, sm, avg) ==
    LET b1 == IF bid > 2 * avg THEN 5 * avg ELSE 4 * bid
    IN  IF b1 <= 4 * sm THEN 5 * sm ELSE b1

\* C24: a bid over twice the average becomes the average plus 25%; then a bid not
\* over the minimum becomes the minimum plus 25%; any other bid is returned as is.
C24_BidCorrections ==
    Optimized =>
        LET c == check_spot_prices(spot_hist)
        IN  4 * bid_result.bid = corrected_bid_x4(bid_price, c.sm, c.avg)

C26_Scenario ==
    (/\ tuned # NoTuned
     /\ spot_hist \in ScenarioHistories
     /\ ListedZones = {"eu-west-1a", "eu-west-1b"}
     /\ bid_price = NoBid) =>
        /\ tuned.err = ErrNone
        /\ tuned.seeded = 3750
        /\ tuned.zone = "eu-west-1a"
        /\ tuned.bid = 3750

\* C27: when the history fetch fails, prepare() with auto-tune still returns a
\* plan, with the caller's bid and a zone of the region.
C27_FetchFailureNotFatal ==
    (hist_fails /\ tuned # NoTuned) =>
        /\ tuned.err = ErrNone
        /\ tuned.bid = bid_price
        /\ tuned.zone \in Zones

\* ------------------------------------------------- billing: properties

\* remaining_billing_interval has returned.
Billed == billing # NoOrdinal

\* The instance was launched less than 15% of an hour before the reading.
FreshlyLaunched == utcnow - launch_time \in 0..(15 * Hour) \div 100 - 1

\* C28 as stated: with a launch time not later than now the result lies in [0,1).
C28_BillingBelowOne ==
    (Billed /\ launch_time <= utcnow) => billing \in 0..Hour - 1

\* C28: the result is 1.0 - ( elapsed / 3600 mod 1.0 ); with a launch time not
\* later than now it lies in (0,1], and for a freshly launched instance in
\* (0.85, 1.0].
C28_BillingInterval ==
    Billed =>
        /\ billing + ((utcnow - launch_time) % Hour) = Hour
        /\ launch_time <= utcnow => billing \in 1..Hour
        /\ FreshlyLaunched => 100 * billing > 85 * Hour /\ billing <= Hour

\* C28, its case: a reading at the very launch time returns the whole hour.
C28_Witness ==
    /\ Billed
    /\ utcnow = launch_time
    /\ FreshlyLaunched
    /\ billing = Hour

\* ------------------------------------------- the resource manager: properties

\* check_resource_request was called with an amount for each resource.
Checked ==
    /\ checked # NoCheck
    /\ request.memory # NoAmount /\ request.cores # NoAmount /\ request.disk # NoAmount

\* The resources asked for beyond their maximum.
Exceeded ==
    {d \in {"cores", "memory", "disk"} :
        \/ d = "cores" /\ request.cores > rm.maxCores
        \/ d = "memory" /\ request.memory > rm.maxMemory
        \/ d = "disk" /\ request.disk > rm.maxDisk}

\* The first of them in the order cores, memory, disk, with what was asked and
\* what there is.
FirstExceeded ==
    IF "cores" \in Exceeded THEN <<"cores", request.cores, rm.maxCores>>
    ELSE IF "memory" \in Exceeded THEN <<"memory", request.memory, rm.maxMemory>>
    ELSE <<"disk", request.disk, rm.maxDisk>>

\* C29: the call fails with InsufficientSystemResources exactly when a resource
\* is asked for beyond its maximum; the error names the first such resource in
\* the order cores, memory, disk, the amount asked and the maximum; the manager
\* is as it was.
C29_ResourceRequest ==
    Checked =>
        /\ (checked.err = "InsufficientSystemResources") = (Exceeded # {})
        /\ checked.err \in {ErrNone, "InsufficientSystemResources"}
        /\ Exceeded # {} =>
              <<checked.resource, checked.requested, checked.available>> = FirstExceeded
        /\ rm = checked.before

\* C29, its case: cores asked up to the maximum, memory and disk beyond it; the
\* error names memory.
C29_Witness ==
    /\ Checked
    /\ request.cores = rm.maxCores
    /\ Exceeded = {"memory", "disk"}
    /\ checked.err = "InsufficientSystemResources"
    /\ checked.resource = "memory"

\* ------------------------------------------------ the monitors: properties

\* C30: once the thread of a started monitor has ended and its job is done,
\* complete() has been called exactly once, with a snapshot of the done job.
C30_CompletedOnce ==
    \A i \in MonitorIds :
        (monitors[i] = "raised" /\ is_done(operations[i])) =>
            /\ Len(completed[i]) = 1
            /\ is_done(completed[i][1])

\* C31: a monitor of two retries whose job is never done polls exactly twice,
\* fails with a timeout and never calls complete().
C31_TwoPollsThenTimeout ==
    \A i \in MonitorIds :
        (monitors[i] \notin {"none", "created", "started", "AttributeError"}
            /\ ~is_done(operations[i])) =>
            /\ mon_polls[i] = 2
            /\ monitors[i] = "timeout"
            /\ completed[i] = <<>>

\* C32: the executor reports completion only after every registered monitor
\* thread has ended and been joined, and once every monitor has ended while
\* the executor waits, the executor does report.
C32_ReportAfterAllJoined ==
    /\ [](wf.pc \in {"report", "returned"} =>
            /\ none_alive(wf_threads)
            /\ wf.i = Len(wf_threads) + 1)
    /\ ((wf.pc = "wait" /\ none_alive(wf_threads)) ~> wf.pc = "returned")

C32_Witness ==
    /\ wf.pc = "returned"
    /\ Len(wf_threads) = MaxJobs
    /\ wf.i = Len(wf_threads) + 1

\* The threads inside the lock section of a remote-channel task.
InSection == {t \in TaskThreads : fab[t].pc \in {"section", "execute", "finally", "exit"}}

\* A call of a remote-channel task that has returned or raised.
TaskEnded(t) == fab[t].pc = "idle" /\ fab[t].calls > 0

C38_UserStackBalanced ==
    \A t \in TaskThreads :
        /\ fab[t].pc = "exit" => user_stack = fab[t].entry
        /\ fab[t].pushed => top(fab[t].entry) # fab[t].user
        /\ fab[t].pc = "exit" /\ fab[t].pushed => fab[t].popped = fab[t].user

C38_Witness ==
    \E t \in TaskThreads :
        /\ fab[t].pc = "exit"
        /\ fab[t].pushed
        /\ fab[t].popped = fab[t].user
        /\ \E u \in TaskThreads : u # t /\ fab[u].pc = "lock"

\* C34: an SSH operation that met a failure of the channel has logged it and
\* has returned an empty result; no exception has left the operation.
C34_ChannelFailureContained ==
    (ssh.pc = "idle" /\ ssh.op # NoName /\ ssh.fault # "none") =>
        /\ ssh.logged
        /\ ssh.outcome = "returned None"

\* The workers a node counts for in the order of termination: those its
\* NodeInfo reports, one for an instance without NodeInfo.
active_workers(instance) == IF instance.info # NoInfo THEN instance.info ELSE 1

\* a comes before b in the order (activeWorkers, remaining billing interval).
Precedes(a, b) ==
    \/ active_workers(a) < active_workers(b)
    \/ /\ active_workers(a) = active_workers(b)
       /\ remainingBillingInterval(a) < remainingBillingInterval(b)

\* An instance the shrink could have chosen: forced, or idle with at most 0.15
\* of its hour left.
Candidate(instance, force) ==
    force \/ (KnownIdle(instance) /\ remainingBillingInterval(instance) <= BillingSlack)

\* The candidates the last shrink did not choose.
NotChosen ==
    LET left == workers[ctl_last.preemptible]
    IN  {left[j] : j \in {k \in 1..Len(left) : Candidate(left[k], ctl_last.force)}}

\* C35: in a shrink with load information no candidate that was not chosen
\* comes before a chosen one in the order (activeWorkers, remaining billing
\* interval), and no busy node is chosen while an idle candidate stays.
C35_VictimsFromFront ==
    (Shrunk /\ has_rm) =>
        \A i \in 1..Len(ctl_last.selected) : \A other \in NotChosen :
            /\ ~Precedes(other, ctl_last.selected[i])
            /\ ~(KnownIdle(other) /\ ~KnownIdle(ctl_last.selected[i]))

\* C35, its case: a forced shrink by one chose the idle node with more of its
\* hour left and kept a busy one with less.
C35_Witness ==
    /\ Shrunk
    /\ has_rm
    /\ ctl_last.force
    /\ Len(ctl_last.selected) = 1
    /\ KnownIdle(ctl_last.selected[1])
    /\ \E other \in NotChosen :
           /\ other.info >= 1
           /\ remainingBillingInterval(other) < remainingBillingInterval(ctl_last.selected[1])

\* The spot requests the call submitted that no instance was launched for.
Unfulfilled == {instances[i] : i \in 1..Len(instances)} \ launched

\* C36: when create() for a spot plan has ended in failure, every spot request
\* it submitted that is not fulfilled has been cancelled, with or without
\* terminate_on_error.
C36_UnfulfilledCancelled ==
    (pc = "done" /\ args.spot /\ err # ErrNone) =>
        Unfulfilled \subseteq cancelled_requests

\* C37: once shut_down has written the statistics, every collector thread has
\* ended and the written object holds, under the name of the thread's class,
\* the samples that thread appended.
C37_DumpHoldsAllSamples ==
    stats_files > 0 =>
        \A t \in 1..Len(statsThreads) :
            /\ statsThreads[t] # "running"
            /\ stats_dump[thread_name(gathered[t].preemptible)].samples
                   = gathered[t].samples

\* The instances create() has tagged.
Tagged == DOMAIN tags

\* C39: the engine has a cluster name from its first embed on and the name
\* never changes; the instances one create() call has bound carry the same
\* cluster name and pairwise distinct cluster ordinals.
C39_OneClusterName ==
    /\ [][engine.cluster_name # NoName =>
              engine'.cluster_name = engine.cluster_name]_vars
    /\ []((engine.cluster_name # NoName) <=> (embedded # <<>>))
    /\ [](\A i, j \in Tagged :
              /\ tags[i].Cl_Name = engine.cluster_name
              /\ tags[i].Cl_Name = tags[j].Cl_Name
              /\ i # j => tags[i].Cl_Ordinal # tags[j].Cl_Ordinal)

\* C39, its case: create() has returned the largest batch, every instance
\* tagged.
C39_Witness ==
    /\ returned
    /\ Len(engines) = MaxCount
    /\ Cardinality(Tagged) = MaxCount
    /\ \A i, j \in Tagged : tags[i].Cl_Name = tags[j].Cl_Name

\* C40: in the plan prepare() has returned, the subnet and the placement group
\* are those of the plan's placement zone, with or without spot_auto_tune.
C40_PlanOfOneZone ==
    (last.op = "prepare" /\ last.err = ErrNone) =>
        /\ plan.SubnetZone = plan.Zone
        /\ plan.GroupZone = plan.Zone

====
